---- MODULE Spec2Model ----
(***************************************************************************)
(* CMNetwork: the connection registry (SocketManage), its kqueue notifier  *)
(* (SocketManageKqueue), the per-connection receive clock (IOSocketCRTP)   *)
(* and the RAII descriptor wrapper (SocketHandle).                         *)
(*                                                                         *)
(* Four specifications share the module:                                   *)
(*   Spec         the registry driven by Join / Unjoin / Update / Clear    *)
(*   SpecCycle    the registry with one descriptor per kind of event, so   *)
(*                that one Update dispatches receive, send and error       *)
(*   SpecTimeout  the registry with a running clock and receive timeouts   *)
(*   SpecHandle   SocketHandle objects driven by their member functions    *)
(***************************************************************************)
EXTENDS Integers, Sequences, FiniteSets, TLC

(***************************************************************************)
(* Bounds                                                                  *)
(***************************************************************************)
NHandles == 2   \* SocketHandle objects
MaxFd == 2   \* descriptors the kernel hands out to SocketHandle owners
CloseCap == 2   \* saturation of the per-descriptor ::close() counter
NConns == 3   \* TCPAccept objects the application joins and unjoins
MaxEvents == 3   \* events one kevent() call returns
MaxBatch == 2   \* length of the slice given to the batch Join
CountCap == 2   \* Join is not called once cur_count reached this
MaxChunks == 2    \* chunks of a response, the terminating one not counted
MaxChunkLen == 2  \* payload bytes of a chunk
MaxArrive == 3    \* bytes that arrive at the socket in one go
MaxBufSize == 2   \* bufsize of a Read call
MaxTotal == 1  \* bytes a connection counts in each direction
MaxTime == 2   \* the clock stops here
MaxTimeOut == 0   \* largest receive timeout SetRecvTimeOut is given
MaxEventsTimed == 1   \* events one kevent() call returns while the clock runs
MaxConnect == 1   \* max_user given to CreateSocketManageBase
MaxServerFd == 2   \* descriptors CreateServerSocket() obtains
NThreads == 2   \* accept threads MultiThreadAccept starts
MaxClients == 2   \* connections clients make to the listening socket
MaxAcceptTimeOut == 1   \* largest value SetTimeOut is given

\* HGL_NETWORK_DOUBLE_TIME_OUT, the receive timeout a fresh connection has
HGL_NETWORK_DOUBLE_TIME_OUT == 120

\* HGL_NETWORK_TIME_OUT, the accept timeout a fresh AcceptServer has
HGL_NETWORK_TIME_OUT == 60

\* HGL_SERVER_OVERLOAD_RESUME_TIME, the initial overload_wait
HGL_SERVER_OVERLOAD_RESUME_TIME == 10

\* enum SocketError
HTTP_HEADER_BUFFER_SIZE == 1024
chunk_header_max == 31
nseNoError == 0
nseTooManyLink == 24

Handles == 1..NHandles
HandleFds == 0..(MaxFd - 1)

\* the connections the application joins and unjoins
Pool == 1..NConns

\* the three passes of Update: ProcSocketRecvList, ProcSocketSendList,
\* ProcSocketErrorList, named by the handler each one calls
EventKinds == {"OnRecv", "OnSend", "OnError"}

\* one connection per kind of event, each with a descriptor of its own
CycleConns == {2 * i - 1 : i \in 1..Cardinality(EventKinds)}

Conns == Pool \cup CycleConns

VARIABLES
    \* ---- SocketHandle (src/inc/hgl/network/SocketHandle.h) ----
    sh_fd,        \* fd_ of every handle
    sh_live,      \* the handle object is constructed and not yet destroyed
    kern,         \* kernel: [open: descriptors open, closes: ::close() calls per descriptor, next: next descriptor socket() returns]
    released,     \* descriptors given away by release() and owned by nobody
    sh_op,        \* the member function that ran last: <<name, handle, fd_ before>>
    \* ---- SocketManage (src/inc/hgl/network/SocketManage.h) ----
    socket_list,      \* UnorderedMap<int,TCPAccept *>: set of [key, val] entries
    sock_recv_list,   \* scratch lists filled by manage->Update
    sock_send_list,
    sock_error_list,
    error_sets,       \* OrderedValueSet<TCPAccept *>: sorted sequence
    \* ---- SocketManageKqueue (src/src/NetworkPort.cpp) ----
    kq,               \* [kqueue_fd, cur_count, regs: (ident, filter) pairs the kernel watches,
                      \*  closes: close() calls that closed the kqueue, live: the object is not destroyed]
    write_filter,     \* the EVFILT_WRITE lines of kqueue_add/kqueue_del are compiled in
    \* ---- IOSocketCRTP (src/src/CMakeLists.txt) ----
    last_recv_time_,  \* per connection
    recv_time_out_,   \* per connection
    now,              \* the clock handed to the handlers
    \* ---- observation of the last registry operation ----
    send_total_,      \* IOSocketCRTP::send_total_ of every connection
    recv_total_,      \* IOSocketCRTP::recv_total_ of every connection
    last_op,          \* name of the operation that ran last
    ret,              \* its return value (bool as 1/0)
    call_log,         \* the calls it made, in order: <<callee, descriptor or connection, result>>
    cycle_err,        \* connections that errored during the last Update
    prev_err,         \* the errored set the last operation found, when it was an Update
    \* ---- the last SocketManageKqueue::Update called directly ----
    kq_time_out,      \* its time_out argument
    kq_tsp,           \* the timeout pointer kevent() got: "NULL", "ts", or "none" without a kevent() call
    kq_blocked,       \* the kevent() call has not returned
    kq_events,        \* the events kevent() returned
    kq_errno,         \* errno after a kevent() that returned -1, "none" otherwise
    \* ---- ServerSocket / AcceptServer (src/src/ServerSocket.cpp, src/src/AcceptServer.cpp) ----
    srv_ThisSocket,   \* ServerSocket::ThisSocket
    srv_kern,         \* kernel: [open: server descriptors open, next: next descriptor a socket() call returns,
                      \*  listening: descriptors listen() succeeded on, closes: close() calls per descriptor,
                      \*  v6only: descriptors with IPV6_V6ONLY switched on]
    server_address,   \* the pointer is not null
    srv_family,       \* GetFamily() of the address server_address points to
    srv_live,         \* the ServerSocket is not destroyed
    acc_new_sock,     \* what accept() returned in the last Accept, -1 without an accepted connection
    accept_timeout,   \* seconds; 0 is the zeroed timeval
    platform,         \* the errno numbering of the build: "linux" or "bsd"
    acc_op,           \* <<name of the member function that ran last, addr is null>>
    acc_ret,          \* its return value
    acc_calls,        \* the calls Accept made, in order: <<callee, argument, result>>
    acc_crashed,      \* the process died in a null dereference
    acc_backed_off,   \* some earlier Accept waited overload_wait
    \* ---- AcceptThread pool and the owner of the SocketManage (src/unnamed/part_001) ----
    th_pc,            \* where each accept thread is
    th_sock,          \* new_sock of the Accept call the thread is in, 0 for none
    th_trace,         \* what the thread's last LogInfo printed: [ip, sock]
    ipstr,            \* AcceptServer::ipstr: the connection whose address it holds, 0 for none
    is_close,         \* what IsClose() returns
    pending,          \* connections waiting in the listen queue
    connected,        \* connections clients have made so far
    lsn_block,        \* the listening socket is in blocking mode
    owner_pc,         \* where the thread that owns the SocketManage is
    \* ---- HTTPInputStream (src/src/HTTPInputStream.cpp) ----
    tcp_is,           \* the socket: [wire: bytes the server sends that are not read yet, avail: how many have arrived]
    body,             \* the payload bytes of the chunks the server sends
    response_code,    \* 0 until the header is parsed
    http_pos,         \* HTTPInputStream::pos
    chunk_size,       \* size of the current chunk
    chunk_pos,        \* bytes of it already read
    chunk_header_parsed,
    http_ret,         \* what the last Read returned
    http_out          \* the bytes the Read calls have returned so far, in order

sh_vars == <<sh_fd, sh_live, kern, released, sh_op>>
sm_vars == <<socket_list, sock_recv_list, sock_send_list, sock_error_list, error_sets, kq, write_filter>>
ct_vars == <<send_total_, recv_total_>>
io_vars == <<last_recv_time_, recv_time_out_, now, ct_vars>>
ob_vars == <<last_op, ret, call_log, cycle_err, prev_err>>
nf_vars == <<kq_time_out, kq_tsp, kq_blocked, kq_events, kq_errno>>
ac_vars == <<srv_ThisSocket, srv_kern, server_address, srv_family, srv_live, acc_new_sock,
             accept_timeout, platform,
             acc_op, acc_ret, acc_calls, acc_crashed, acc_backed_off>>
pl_vars == <<th_pc, th_sock, th_trace, ipstr, is_close, pending, connected, lsn_block, owner_pc>>
ht_vars == <<tcp_is, body, response_code, http_pos, chunk_size, chunk_pos, chunk_header_parsed,
             http_ret, http_out>>

(***************************************************************************)
(* SocketHandle                                                            *)
(***************************************************************************)

\* ::close(fd): the descriptor leaves the open set; the call is counted
SysClose(k, fd) ==
    [k EXCEPT !.open = @ \ {fd},
              !.closes[fd] = IF @ < CloseCap THEN @ + 1 ELSE @]

\* socket(): the kernel opens descriptor k.next
SysSocket(k) ==
    [k EXCEPT !.open = @ \cup {k.next}, !.next = @ + 1]

\* close_fd(): closes a valid descriptor and voids fd_; result is (fd_, kernel)
close_fd(fd, k) ==
    IF fd >= 0 THEN [fd |-> -1, k |-> SysClose(k, fd)]
               ELSE [fd |-> fd, k |-> k]

\* a move that copies fd_ without voiding the source
MovedFrom_keeps_fd(other_fd) == other_fd

\* what the moved-from handle holds after a move: other.fd_ = -1
MovedFrom(other_fd) == -1

\* a release() that hands the descriptor out and keeps it
release_keeps_fd(fd) == [ret |-> fd, fd |-> fd]

\* release(): temp = fd_; fd_ = -1; return temp
release(fd) == [ret |-> fd, fd |-> -1]

\* a reset() that overwrites fd_ without closing it
reset_no_close(fd_, fd, k) == [fd |-> fd, k |-> k]

\* reset(fd): if (fd_ != fd) { close_fd(); fd_ = fd; }
reset(fd_, fd, k) ==
    IF fd_ # fd THEN [fd |-> fd, k |-> close_fd(fd_, k).k]
                ELSE [fd |-> fd_, k |-> k]

\* raw descriptors a caller may wrap: handed back by release(), or invalid
Unowned == released \cup {-1}

\* explicit SocketHandle(int fd), on a descriptor nobody owns
SocketHandle_fd(h, fd) ==
    /\ ~sh_live[h]
    /\ fd \in Unowned
    /\ sh_fd' = [sh_fd EXCEPT ![h] = fd]
    /\ sh_live' = [sh_live EXCEPT ![h] = TRUE]
    /\ released' = released \ {fd}
    /\ kern' = kern
    /\ sh_op' = <<"ctor", h, -1>>
    /\ UNCHANGED <<sm_vars, io_vars, ob_vars, nf_vars, ac_vars, pl_vars, ht_vars>>

\* SocketHandle handle(socket(...)): wraps the descriptor the kernel just opened
SocketHandle_socket(h) ==
    /\ ~sh_live[h]
    /\ kern.next < MaxFd
    /\ kern' = SysSocket(kern)
    /\ sh_fd' = [sh_fd EXCEPT ![h] = kern.next]
    /\ sh_live' = [sh_live EXCEPT ![h] = TRUE]
    /\ released' = released
    /\ sh_op' = <<"ctor_socket", h, -1>>
    /\ UNCHANGED <<sm_vars, io_vars, ob_vars, nf_vars, ac_vars, pl_vars, ht_vars>>

\* SocketHandle(SocketHandle&& other)
SocketHandle_move(h, other) ==
    /\ ~sh_live[h] /\ sh_live[other] /\ h # other
    /\ sh_fd' = [sh_fd EXCEPT ![h] = sh_fd[other], ![other] = MovedFrom(sh_fd[other])]
    /\ sh_live' = [sh_live EXCEPT ![h] = TRUE]
    /\ UNCHANGED <<kern, released>>
    /\ sh_op' = <<"move_ctor", h, -1>>
    /\ UNCHANGED <<sm_vars, io_vars, ob_vars, nf_vars, ac_vars, pl_vars, ht_vars>>

\* operator=(SocketHandle&& other), self-assignment included
MoveAssign(h, other) ==
    /\ sh_live[h] /\ sh_live[other]
    /\ IF h # other
       THEN /\ kern' = close_fd(sh_fd[h], kern).k
            /\ sh_fd' = [sh_fd EXCEPT ![h] = sh_fd[other], ![other] = MovedFrom(sh_fd[other])]
       ELSE UNCHANGED <<kern, sh_fd>>
    /\ UNCHANGED <<sh_live, released>>
    /\ sh_op' = <<"move_assign", h, sh_fd[h]>>
    /\ UNCHANGED <<sm_vars, io_vars, ob_vars, nf_vars, ac_vars, pl_vars, ht_vars>>

\* int release()
Release(h) ==
    /\ sh_live[h]
    /\ sh_fd' = [sh_fd EXCEPT ![h] = release(sh_fd[h]).fd]
    /\ released' = IF release(sh_fd[h]).ret >= 0
                   THEN released \cup {release(sh_fd[h]).ret} ELSE released
    /\ UNCHANGED <<kern, sh_live>>
    /\ sh_op' = <<"release", h, sh_fd[h]>>
    /\ UNCHANGED <<sm_vars, io_vars, ob_vars, nf_vars, ac_vars, pl_vars, ht_vars>>

\* void reset(int fd = -1), with an unowned descriptor or the handle's own
Reset(h, fd) ==
    /\ sh_live[h]
    /\ fd \in Unowned \cup {sh_fd[h]}
    /\ sh_fd' = [sh_fd EXCEPT ![h] = reset(sh_fd[h], fd, kern).fd]
    /\ kern' = reset(sh_fd[h], fd, kern).k
    /\ released' = released \ {fd}
    /\ UNCHANGED sh_live
    /\ sh_op' = <<"reset", h, sh_fd[h]>>
    /\ UNCHANGED <<sm_vars, io_vars, ob_vars, nf_vars, ac_vars, pl_vars, ht_vars>>

\* void close()
Close(h) ==
    /\ sh_live[h]
    /\ sh_fd' = [sh_fd EXCEPT ![h] = close_fd(sh_fd[h], kern).fd]
    /\ kern' = close_fd(sh_fd[h], kern).k
    /\ UNCHANGED <<sh_live, released>>
    /\ sh_op' = <<"close", h, sh_fd[h]>>
    /\ UNCHANGED <<sm_vars, io_vars, ob_vars, nf_vars, ac_vars, pl_vars, ht_vars>>

\* ~SocketHandle()
Destroy(h) ==
    /\ sh_live[h]
    /\ sh_fd' = [sh_fd EXCEPT ![h] = close_fd(sh_fd[h], kern).fd]
    /\ kern' = close_fd(sh_fd[h], kern).k
    /\ sh_live' = [sh_live EXCEPT ![h] = FALSE]
    /\ UNCHANGED released
    /\ sh_op' = <<"dtor", h, sh_fd[h]>>
    /\ UNCHANGED <<sm_vars, io_vars, ob_vars, nf_vars, ac_vars, pl_vars, ht_vars>>

(***************************************************************************)
(* Containers                                                              *)
(***************************************************************************)

Range(s) == {s[i] : i \in 1..Len(s)}

Keys(m) == {e.key : e \in m}

\* an Add that stores the entry although the key is present
MapAdd_no_key_check(m, k, v) == [ok |-> TRUE, map |-> m \cup {[key |-> k, val |-> v]}]

\* UnorderedMap<int,TCPAccept *>::Add: refuses a key that is present
MapAdd(m, k, v) ==
    IF k \in Keys(m) THEN [ok |-> FALSE, map |-> m]
                     ELSE [ok |-> TRUE, map |-> m \cup {[key |-> k, val |-> v]}]

\* UnorderedMap::DeleteByKey
MapDelete(m, k) == {e \in m : e.key # k}

\* UnorderedMap::Get; 0 stands for "not found" (nullptr)
MapGet(m, k) == IF k \in Keys(m) THEN (CHOOSE e \in m : e.key = k).val ELSE 0

\* an Add that appends without looking for the value
SetAdd_allows_duplicates(s, v) == Append(s, v)

\* OrderedValueSet<TCPAccept *>::Add: keeps the values sorted and unique
SetAdd(s, v) ==
    IF v \in Range(s) THEN s
    ELSE LET lo == SelectSeq(s, LAMBDA x : x < v)
             hi == SelectSeq(s, LAMBDA x : x > v)
         IN lo \o <<v>> \o hi

RECURSIVE SetAddAll(_, _)
SetAddAll(s, vs) ==
    IF vs = <<>> THEN s ELSE SetAddAll(SetAdd(s, Head(vs)), Tail(vs))

(***************************************************************************)
(* TCPAccept / IOSocketCRTP                                                *)
(***************************************************************************)

\* the descriptor a connection object holds (ThisSocket); connections 1 and
\* 2 hold the same descriptor value, as do 3 and 4, ...
ThisSocket(c) == (c + 1) \div 2

Fds == {ThisSocket(c) : c \in Conns}

\* a timeout test with the comparison turned round
CheckRecvTimeOut_reversed(last, to, ct) == (last > 0) /\ (last + to > ct)

\* a timeout test without the test for a first receive
CheckRecvTimeOut_from_zero(last, to, ct) == last + to < ct

\* IOSocketCRTP::CheckRecvTimeOut(ct)
CheckRecvTimeOut(last, to, ct) == (last > 0) /\ (last + to < ct)

\* OnUpdateImpl of a connection that enforces its receive timeout:
\* false when CheckRecvTimeOut(now) holds
OnUpdate(c) == ~CheckRecvTimeOut(last_recv_time_[c], recv_time_out_[c], now)

(***************************************************************************)
(* SocketManageKqueue                                                      *)
(***************************************************************************)

KqFilters == IF write_filter THEN {"EVFILT_READ", "EVFILT_WRITE"} ELSE {"EVFILT_READ"}

\* kqueue_add: kevent(EV_ADD) per filter; fails as a whole on a closed kqueue
kqueue_add(k, sock) ==
    IF k.kqueue_fd # -1
    THEN [k EXCEPT !.regs = @ \cup {<<sock, f>> : f \in KqFilters}]
    ELSE k

\* kqueue_del: kevent(EV_DELETE) per filter
kqueue_del(k, sock) ==
    IF k.kqueue_fd # -1
    THEN [k EXCEPT !.regs = @ \ {<<sock, f>> : f \in KqFilters}]
    ELSE k

\* SocketManageKqueue::Join
KqJoin(k, sock) ==
    [ok |-> TRUE, kq |-> [kqueue_add(k, sock) EXCEPT !.cur_count = @ + 1]]

\* an Unjoin that leaves the socket in the kqueue
KqUnjoin_no_del(k, sock) ==
    IF k.kqueue_fd = -1
    THEN [ok |-> FALSE, kq |-> k]
    ELSE [ok |-> TRUE, kq |-> [k EXCEPT !.cur_count = @ - 1]]

\* SocketManageKqueue::Unjoin
KqUnjoin(k, sock) ==
    IF k.kqueue_fd = -1
    THEN [ok |-> FALSE, kq |-> k]
    ELSE [ok |-> TRUE, kq |-> kqueue_del([k EXCEPT !.cur_count = @ - 1], sock)]

\* Clear that closes the kqueue and keeps its number in kqueue_fd
KqClear_keeps_fd(k) ==
    [k EXCEPT !.cur_count = 0, !.regs = {}, !.closes = @ + 1]

\* SocketManageKqueue::~SocketManageKqueue: close(kqueue_fd) whatever
\* kqueue_fd holds; close(-1) fails with EBADF and closes nothing
KqDestroy(k) ==
    IF k.kqueue_fd # -1
    THEN [k EXCEPT !.regs = {}, !.closes = @ + 1, !.live = FALSE]
    ELSE [k EXCEPT !.live = FALSE]

\* SocketManageKqueue::Clear; closing the kqueue drops its registrations
KqClear(k) ==
    IF k.kqueue_fd # -1
    THEN [k EXCEPT !.kqueue_fd = -1, !.cur_count = 0, !.regs = {}, !.closes = @ + 1]
    ELSE [k EXCEPT !.cur_count = 0]

\* the events one kevent() call may report: one per watched (ident, filter),
\* with or without EV_ERROR; data carries the errno of an error event
KEvent(reg, err) ==
    [ident |-> reg[1], filter |-> reg[2], error |-> err, data |-> IF err THEN 54 ELSE 0]

Min(a, b) == IF a < b THEN a ELSE b

\* every (ident, filter) pair, ascending
RegOrder ==
    LET per(fd) == << <<fd, "EVFILT_READ">>, <<fd, "EVFILT_WRITE">> >>
        F[n \in 0..Cardinality(Fds)] == IF n = 0 THEN <<>> ELSE F[n - 1] \o per(n)
    IN F[Cardinality(Fds)]

\* kevent() reports at most n events and at most cur_count (its nevents),
\* one per watched (ident, filter) pair, listed in ascending pair order
EventSeqs(k, n) ==
    LET m == Min(n, k.cur_count)
    IN UNION {
         {[i \in 1..Len(SelectSeq(RegOrder, LAMBDA r : r \in S)) |->
              KEvent(SelectSeq(RegOrder, LAMBDA r : r \in S)[i],
                     SelectSeq(RegOrder, LAMBDA r : r \in S)[i] \in E)] : E \in SUBSET S}
         : S \in {T \in SUBSET k.regs : T # {} /\ Cardinality(T) <= m} }

\* what kevent() returns: n events, 0 on timeout, or -1 with an errno
KernelReturns(k, n) ==
    {[n |-> Len(s), evs |-> s, errno |-> "none"] : s \in EventSeqs(k, n)}
    \cup {[n |-> 0, evs |-> <<>>, errno |-> "none"]}
    \cup {[n |-> -1, evs |-> <<>>, errno |-> e] : e \in {"EINTR", "EBADF"}}

\* the classification loop of Update over event_list[0..event_count)
RECURSIVE Classify(_, _)
Classify(evs, out) ==
    IF evs = <<>> THEN out
    ELSE LET ee == Head(evs)
             nxt == IF ee.error
                    THEN [out EXCEPT !.error = Append(@, [sock |-> ee.ident, val |-> ee.data])]
                    ELSE IF ee.filter = "EVFILT_READ"
                    THEN [out EXCEPT !.recv = Append(@, [sock |-> ee.ident, val |-> 0])]
                    ELSE IF ee.filter = "EVFILT_WRITE"
                    THEN [out EXCEPT !.send = Append(@, [sock |-> ee.ident, val |-> 0])]
                    ELSE out
         IN Classify(Tail(evs), nxt)

\* an Update that returns the number of receive records only
KqUpdate_counts_recv(k, kr, lists) ==
    IF k.kqueue_fd = -1 THEN [ret |-> -1, lists |-> lists]
    ELSE IF k.cur_count <= 0 THEN [ret |-> 0, lists |-> lists]
    ELSE IF kr.n = 0 THEN [ret |-> 0, lists |-> lists]
    ELSE IF kr.n < 0
         THEN IF kr.errno \in {"EBADF", "EFAULT", "EINVAL"}
              THEN [ret |-> -1, lists |-> lists]
              ELSE [ret |-> 0, lists |-> lists]
    ELSE [ret |-> Len(Classify(kr.evs, [recv |-> <<>>, send |-> <<>>, error |-> <<>>]).recv),
          lists |-> Classify(kr.evs, [recv |-> <<>>, send |-> <<>>, error |-> <<>>])]

\* SocketManageKqueue::Update: kr is what kevent() returns; lists are the
\* caller's three lists, left as they are on every early return
KqUpdate(k, kr, lists) ==
    IF k.kqueue_fd = -1 THEN [ret |-> -1, lists |-> lists]
    ELSE IF k.cur_count <= 0 THEN [ret |-> 0, lists |-> lists]
    ELSE IF kr.n = 0 THEN [ret |-> 0, lists |-> lists]
    ELSE IF kr.n < 0
         THEN IF kr.errno \in {"EBADF", "EFAULT", "EINVAL"}
              THEN [ret |-> -1, lists |-> lists]
              ELSE [ret |-> 0, lists |-> lists]
    ELSE [ret |-> kr.n,
          lists |-> Classify(kr.evs, [recv |-> <<>>, send |-> <<>>, error |-> <<>>])]

\* the timeout pointer Update hands to kevent(): &ts for a positive
\* time_out, nullptr for zero and for a negative one
Tsp(time_out) == IF time_out > 0 THEN "ts" ELSE "NULL"

\* a kevent with its flags: EV_ERROR (data is the errno), EV_EOF (the peer
\* has shut down)
KEventFlags(reg, err, eof) ==
    [ident |-> reg[1], filter |-> reg[2], error |-> err, eof |-> eof,
     data |-> IF err THEN 54 ELSE 0]

\* the watched pairs of S in event_list order
Ordered(S) == SelectSeq(RegOrder, LAMBDA r : r \in S)

\* as EventSeqs, every event with or without EV_ERROR and EV_EOF
FlaggedEventSeqs(k, n) ==
    UNION {
      {[i \in 1..Len(o) |-> KEventFlags(o[i], o[i] \in E, o[i] \in H)]
          : E \in SUBSET Range(o), H \in SUBSET Range(o)}
      : o \in {Ordered(T) : T \in {S \in SUBSET k.regs :
                                    S # {} /\ Cardinality(S) <= Min(n, k.cur_count)}} }

\* the errors kevent(2) documents for a call without a changelist
KeventErrnos == {"EINTR", "EBADF", "EFAULT", "EINVAL", "ENOMEM", "EACCES"}

\* as KernelReturns, over the flagged events
FlaggedKernelReturns(k, n) ==
    {[n |-> Len(s), evs |-> s, errno |-> "none"] : s \in FlaggedEventSeqs(k, n)}
    \cup {[n |-> 0, evs |-> <<>>, errno |-> "none"]}
    \cup {[n |-> -1, evs |-> <<>>, errno |-> e] : e \in KeventErrnos}

\* SocketManageKqueue::max_connect, the length of event_list
max_connect == MaxConnect

\* Update reaches its kevent() call
CallsKevent(k) == k.kqueue_fd # -1 /\ k.cur_count > 0

(***************************************************************************)
(* SocketManage                                                            *)
(***************************************************************************)

BoolRet(b) == IF b THEN 1 ELSE 0

\* Join(TCPAccept *s): insert under the descriptor, then register with the
\* notifier; a descriptor that is already a key fails before the notifier
\* is touched
SMJoin(m, k, c) ==
    LET fd == ThisSocket(c)
        a  == MapAdd(m, fd, c)
    IN IF ~a.ok
       THEN [ok |-> FALSE, map |-> m, kq |-> k,
             log |-> << <<"socket_list.Add", fd, 0>> >>]
       ELSE [ok |-> TRUE, map |-> a.map, kq |-> KqJoin(k, fd).kq,
             log |-> << <<"socket_list.Add", fd, 1>>,
                        <<"manage.Join", fd, BoolRet(KqJoin(k, fd).ok)>> >>]

\* Join(TCPAccept **s_list,int count): Join each, count the successes
RECURSIVE SMJoinList(_, _, _, _, _)
SMJoinList(m, k, cs, count, log) ==
    IF cs = <<>> THEN [count |-> count, map |-> m, kq |-> k, log |-> log]
    ELSE LET j == SMJoin(m, k, Head(cs))
         IN SMJoinList(j.map, j.kq, Tail(cs),
                       IF j.ok THEN count + 1 ELSE count, log \o j.log)

\* Unjoin(TCPAccept *s): nothing for a connection that is not registered;
\* otherwise the notifier registration goes first, the map entry second
SMUnjoin(m, k, c) ==
    LET fd == ThisSocket(c)
    IN IF MapGet(m, fd) # c
       THEN [ok |-> FALSE, map |-> m, kq |-> k, log |-> <<>>]
       ELSE [ok |-> TRUE, map |-> MapDelete(m, fd), kq |-> KqUnjoin(k, fd).kq,
             log |-> << <<"manage.Unjoin", fd, BoolRet(KqUnjoin(k, fd).ok)>>,
                        <<"socket_list.DeleteByKey", fd, 1>> >>]

\* the connections the records of one scratch list resolve to, in list order
Targets(m, list) ==
    LET all == [i \in 1..Len(list) |-> MapGet(m, list[i].sock)]
    IN SelectSeq(all, LAMBDA c : c # 0)

\* a handler's return value: a negative taxonomy code, or a byte count
HandlerRet(c, neg) == IF c \in neg THEN -1 ELSE 1

Calls(name, cs, neg) == [i \in 1..Len(cs) |-> <<name, cs[i], HandlerRet(cs[i], neg)>>]

Void(name, cs) == [i \in 1..Len(cs) |-> <<name, cs[i], 0>>]

\* the registered connections in key order
Registered(m) ==
    LET all == [fd \in Fds |-> MapGet(m, fd)]
    IN SelectSeq(all, LAMBDA c : c # 0)

\* Update that dispatches send before receive
SMUpdateOrder_send_first(recv, send, error) == send \o recv \o error

\* order in which Update runs the three Proc...List passes
SMUpdateOrder(recv, send, error) == recv \o send \o error

\* Update that keeps the previous cycle's errored set
SMDrain_keeps(es) == es

\* ProcErrorList at the start of Update: the errored set is emptied
SMDrain(es) == <<>>

\* Update(time_out). kr: what kevent() returns in this cycle; rneg / sneg:
\* the connections whose OnRecv / OnSend return a negative code in this cycle.
\*  (1) drain the errored set            (2) OnUpdate of every connection
\*  (3) manage->Update into the lists    (4) recv, send, error passes
SMUpdate(m, k, lists, es, kr, rneg, sneg) ==
    LET drained == SMDrain(es)
        swept   == Registered(m)
        timed   == SelectSeq(swept, LAMBDA c : ~OnUpdate(c))
        p       == KqUpdate(k, kr, lists)
        fresh   == p.ret > 0
        rcalls  == IF fresh THEN Targets(m, p.lists.recv) ELSE <<>>
        scalls  == IF fresh THEN Targets(m, p.lists.send) ELSE <<>>
        ecalls  == IF fresh THEN Targets(m, p.lists.error) ELSE <<>>
        rbad    == SelectSeq(rcalls, LAMBDA c : HandlerRet(c, rneg) < 0)
        sbad    == SelectSeq(scalls, LAMBDA c : HandlerRet(c, sneg) < 0)
    IN [ret     |-> p.ret,
        lists   |-> p.lists,
        errs    |-> SetAddAll(drained, timed \o rbad \o sbad \o ecalls),
        recvd   |-> Range(rcalls),
        log     |-> [i \in 1..Len(swept) |-> <<"OnUpdate", swept[i], BoolRet(OnUpdate(swept[i]))>>]
                    \o SMUpdateOrder(Calls("OnRecv", rcalls, rneg), Calls("OnSend", scalls, sneg),
                                     Void("OnError", ecalls)),
        errored |-> Range(timed) \cup Range(rbad) \cup Range(sbad) \cup Range(ecalls)]

\* OnRecv that leaves last_recv_time_ alone
OnRecv_keeps(last, ct) == last

\* IOSocketCRTP::OnRecv: last_recv_time_ = ct, whatever OnRecvImpl returns
OnRecv(last, ct) == ct

(***************************************************************************)
(* Registry actions                                                        *)
(***************************************************************************)

Lists == [recv |-> sock_recv_list, send |-> sock_send_list, error |-> sock_error_list]

\* Join(TCPAccept *s), called while the notifier counts fewer than cap
JoinUpTo(c, cap) ==
    /\ kq.live
    /\ kq.cur_count < cap
    /\ \E j \in {SMJoin(socket_list, kq, c)} :
          /\ socket_list' = j.map
          /\ kq' = j.kq
          /\ ret' = BoolRet(j.ok)
          /\ call_log' = j.log
    /\ last_op' = "Join"
    /\ UNCHANGED <<sock_recv_list, sock_send_list, sock_error_list, error_sets,
                   write_filter, io_vars, cycle_err, sh_vars, nf_vars, ac_vars, pl_vars, ht_vars>>
    /\ prev_err' = {}

Join(c) == JoinUpTo(c, CountCap)

JoinList(cs) ==
    /\ kq.live
    /\ kq.cur_count + Len(cs) <= CountCap
    /\ \E j \in {SMJoinList(socket_list, kq, cs, 0, <<>>)} :
          /\ socket_list' = j.map
          /\ kq' = j.kq
          /\ ret' = j.count
          /\ call_log' = j.log
    /\ last_op' = "JoinList"
    /\ UNCHANGED <<sock_recv_list, sock_send_list, sock_error_list, error_sets,
                   write_filter, io_vars, cycle_err, sh_vars, nf_vars, ac_vars, pl_vars, ht_vars>>
    /\ prev_err' = {}

Unjoin(c) ==
    /\ kq.live
    /\ \E u \in {SMUnjoin(socket_list, kq, c)} :
          /\ socket_list' = u.map
          /\ kq' = u.kq
          /\ ret' = BoolRet(u.ok)
          /\ call_log' = u.log
    /\ last_op' = "Unjoin"
    /\ UNCHANGED <<sock_recv_list, sock_send_list, sock_error_list, error_sets,
                   write_filter, io_vars, cycle_err, sh_vars, nf_vars, ac_vars, pl_vars, ht_vars>>
    /\ prev_err' = {}

Update(maxev) ==
    \E kr \in {r \in KernelReturns(kq, maxev) : kq.live} :
    \E rneg \in SUBSET {MapGet(socket_list, e.ident) : e \in {x \in Range(kr.evs) : ~x.error /\ x.filter = "EVFILT_READ"}},
       sneg \in SUBSET {MapGet(socket_list, e.ident) : e \in {x \in Range(kr.evs) : ~x.error /\ x.filter = "EVFILT_WRITE"}} :
    \E u \in {SMUpdate(socket_list, kq, Lists, error_sets, kr, rneg, sneg)} :
          /\ sock_recv_list' = u.lists.recv
          /\ sock_send_list' = u.lists.send
          /\ sock_error_list' = u.lists.error
          /\ error_sets' = u.errs
          /\ last_recv_time_' = [c \in Conns |->
                IF c \in u.recvd THEN OnRecv(last_recv_time_[c], now) ELSE last_recv_time_[c]]
          /\ ret' = u.ret
          /\ call_log' = u.log
          /\ cycle_err' = u.errored
          /\ prev_err' = Range(error_sets)
          /\ last_op' = "Update"
          /\ UNCHANGED <<socket_list, kq, write_filter, recv_time_out_, now, ct_vars, sh_vars, nf_vars, ac_vars, pl_vars, ht_vars>>

\* Clear(): the notifier is cleared, every connection is dropped
Clear ==
    /\ kq.live
    /\ kq' = KqClear(kq)
    /\ socket_list' = {}
    /\ error_sets' = <<>>
    /\ ret' = 0
    /\ call_log' = << <<"manage.Clear", 0, 0>>, <<"socket_list.Clear", 0, 0>> >>
    /\ cycle_err' = {}
    /\ prev_err' = {}
    /\ last_op' = "Clear"
    /\ UNCHANGED <<sock_recv_list, sock_send_list, sock_error_list, write_filter,
                   io_vars, sh_vars, nf_vars, ac_vars, pl_vars, ht_vars>>

\* the SocketManage object is destroyed and deletes its notifier
DeleteManage ==
    /\ kq.live
    /\ kq' = KqDestroy(kq)
    /\ ret' = 0
    /\ call_log' = << <<"close", kq.kqueue_fd, BoolRet(kq.kqueue_fd # -1) - 1>> >>
    /\ prev_err' = {}
    /\ last_op' = "DeleteManage"
    /\ UNCHANGED <<socket_list, sock_recv_list, sock_send_list, sock_error_list, error_sets,
                   write_filter, io_vars, cycle_err, sh_vars, nf_vars, ac_vars, pl_vars, ht_vars>>

\* the clock advances
Tick ==
    /\ now < MaxTime
    /\ now' = now + 1
    /\ last_op' = "Tick"
    /\ ret' = 0
    /\ call_log' = <<>>
    /\ prev_err' = {}
    /\ UNCHANGED <<last_recv_time_, recv_time_out_, ct_vars, sm_vars, cycle_err, sh_vars, nf_vars, ac_vars, pl_vars, ht_vars>>

\* IOSocketCRTP::SetRecvTimeOut(to)
SetRecvTimeOut(c, to) ==
    /\ recv_time_out_' = [recv_time_out_ EXCEPT ![c] = to]
    /\ last_op' = "SetRecvTimeOut"
    /\ ret' = 0
    /\ call_log' = <<>>
    /\ prev_err' = {}
    /\ UNCHANGED <<last_recv_time_, now, ct_vars, sm_vars, cycle_err, sh_vars, nf_vars, ac_vars, pl_vars, ht_vars>>

(***************************************************************************)
(* IOSocketCRTP called directly                                            *)
(***************************************************************************)

\* Clear() that leaves the receive timeout as it is
IOSocket_Clear_keeps_timeout(to) ==
    [send_total_ |-> 0, recv_total_ |-> 0, recv_time_out_ |-> to, last_recv_time_ |-> 0]

\* IOSocketCRTP::Clear(); to: the receive timeout before the call
IOSocket_Clear(to) ==
    [send_total_ |-> 0, recv_total_ |-> 0,
     recv_time_out_ |-> HGL_NETWORK_DOUBLE_TIME_OUT, last_recv_time_ |-> 0]

\* what OnRecvImpl / OnSendImpl of a derived connection return: a negative
\* code, nothing, or a number of bytes
ImplReturns == -1..MaxTotal

ConnFrame == UNCHANGED <<sm_vars, cycle_err, sh_vars, nf_vars, ac_vars, pl_vars, ht_vars>>

\* OnRecv(recv_buf_size, now) with OnRecvImpl returning n; the derived
\* connection adds the bytes it received to recv_total_
IOSocket_OnRecv(c, n) ==
    /\ n > 0 => recv_total_[c] + n <= MaxTotal
    /\ last_recv_time_' = [last_recv_time_ EXCEPT ![c] = OnRecv(last_recv_time_[c], now)]
    /\ recv_total_' = [recv_total_ EXCEPT ![c] = IF n > 0 THEN @ + n ELSE @]
    /\ last_op' = "OnRecv"
    /\ ret' = n
    /\ call_log' = << <<"OnRecvImpl", c, n>> >>
    /\ prev_err' = {}
    /\ UNCHANGED <<recv_time_out_, now, send_total_>>
    /\ ConnFrame

\* OnSend(send_buf_size) with OnSendImpl returning n; the derived connection
\* adds the bytes it sent to send_total_
IOSocket_OnSend(c, n) ==
    /\ n > 0 => send_total_[c] + n <= MaxTotal
    /\ send_total_' = [send_total_ EXCEPT ![c] = IF n > 0 THEN @ + n ELSE @]
    /\ last_op' = "OnSend"
    /\ ret' = n
    /\ call_log' = << <<"OnSendImpl", c, n>> >>
    /\ prev_err' = {}
    /\ UNCHANGED <<last_recv_time_, recv_time_out_, now, recv_total_>>
    /\ ConnFrame

\* CloseSocket(): Socket::CloseSocket(), then Clear(); the log keeps the
\* receive timeout that Clear() found
CloseSocket(c) ==
    /\ \E u \in {IOSocket_Clear(recv_time_out_[c])} :
          /\ send_total_' = [send_total_ EXCEPT ![c] = u.send_total_]
          /\ recv_total_' = [recv_total_ EXCEPT ![c] = u.recv_total_]
          /\ recv_time_out_' = [recv_time_out_ EXCEPT ![c] = u.recv_time_out_]
          /\ last_recv_time_' = [last_recv_time_ EXCEPT ![c] = u.last_recv_time_]
    /\ last_op' = "CloseSocket"
    /\ ret' = 0
    /\ call_log' = << <<"Socket::CloseSocket", c, 0>>, <<"Clear", c, recv_time_out_[c]>> >>
    /\ prev_err' = {}
    /\ UNCHANGED now
    /\ ConnFrame

(***************************************************************************)
(* SocketManageKqueue called directly                                      *)
(***************************************************************************)

\* the descriptors handed to the notifier
NotifierSocks == {ThisSocket(c) : c \in Pool}

NotifierFrame ==
    /\ call_log' = <<>>
    /\ UNCHANGED <<socket_list, error_sets, write_filter, io_vars, cycle_err, prev_err, sh_vars, ac_vars, pl_vars, ht_vars>>

\* SocketManageKqueue::Join(sock)
Kqueue_Join(sock) ==
    /\ ~kq_blocked
    /\ kq.cur_count < CountCap
    /\ kq' = KqJoin(kq, sock).kq
    /\ ret' = BoolRet(KqJoin(kq, sock).ok)
    /\ last_op' = "Kqueue_Join"
    /\ NotifierFrame
    /\ UNCHANGED <<sock_recv_list, sock_send_list, sock_error_list, nf_vars>>

\* SocketManageKqueue::Unjoin(sock)
Kqueue_Unjoin(sock) ==
    /\ ~kq_blocked
    /\ kq.cur_count > -CountCap
    /\ kq' = KqUnjoin(kq, sock).kq
    /\ ret' = BoolRet(KqUnjoin(kq, sock).ok)
    /\ last_op' = "Kqueue_Unjoin"
    /\ NotifierFrame
    /\ UNCHANGED <<sock_recv_list, sock_send_list, sock_error_list, nf_vars>>

\* SocketManageKqueue::Clear()
Kqueue_Clear ==
    /\ ~kq_blocked
    /\ kq' = KqClear(kq)
    /\ ret' = 0
    /\ last_op' = "Kqueue_Clear"
    /\ NotifierFrame
    /\ UNCHANGED <<sock_recv_list, sock_send_list, sock_error_list, nf_vars>>

\* Update returns with what kevent() returned
KqueueReturn(kr) ==
    \E u \in {KqUpdate(kq, kr, Lists)} :
        /\ sock_recv_list' = u.lists.recv
        /\ sock_send_list' = u.lists.send
        /\ sock_error_list' = u.lists.error
        /\ ret' = u.ret
        /\ kq_events' = IF CallsKevent(kq) THEN kr.evs ELSE <<>>
        /\ kq_errno' = IF CallsKevent(kq) THEN kr.errno ELSE "none"
        /\ kq_blocked' = FALSE

\* SocketManageKqueue::Update(time_out, ...): kevent() with a null timeout
\* pointer does not return while nothing is ready
Kqueue_Update(time_out, maxev) ==
    /\ ~kq_blocked
    /\ kq_time_out' = time_out
    /\ kq_tsp' = IF CallsKevent(kq) THEN Tsp(time_out) ELSE "none"
    /\ \E kr \in FlaggedKernelReturns(kq, maxev) :
          IF CallsKevent(kq) /\ Tsp(time_out) = "NULL" /\ kr.n = 0
          THEN /\ kq_blocked' = TRUE
               /\ UNCHANGED <<sock_recv_list, sock_send_list, sock_error_list, ret, kq_events, kq_errno>>
          ELSE KqueueReturn(kr)
    /\ last_op' = "Kqueue_Update"
    /\ NotifierFrame
    /\ UNCHANGED kq

\* a descriptor becomes ready (or a signal arrives) and the pending
\* kevent() returns
Kqueue_Resume(maxev) ==
    /\ kq_blocked
    /\ \E kr \in {r \in FlaggedKernelReturns(kq, maxev) : r.n # 0} : KqueueReturn(kr)
    /\ last_op' = "Kqueue_Resume"
    /\ NotifierFrame
    /\ UNCHANGED <<kq, kq_time_out, kq_tsp>>

(***************************************************************************)
(* ServerSocket / AcceptServer                                             *)
(***************************************************************************)

Platforms == {"linux", "bsd"}

\* GetLastSocketError() is errno: the number the build's errno.h gives a name
Errno(plat, name) ==
    CASE name = "none"         -> 0
      [] name = "EINTR"        -> 4
      [] name = "EBADF"        -> 9
      [] name = "EINVAL"       -> 22
      [] name = "ENFILE"       -> 23
      [] name = "EMFILE"       -> 24
      [] name = "EAGAIN"       -> IF plat = "linux" THEN 11 ELSE 35
      [] name = "ECONNABORTED" -> IF plat = "linux" THEN 103 ELSE 53
      [] name = "ETIMEDOUT"    -> IF plat = "linux" THEN 110 ELSE 60

\* what a failed accept() leaves in errno
AcceptErrnos == {"none", "EINTR", "EBADF", "EINVAL", "ENFILE", "EMFILE",
                 "EAGAIN", "ECONNABORTED", "ETIMEDOUT"}

\* nseTimeOut of enum SocketError
nseTimeOut(plat) == Errno(plat, "ETIMEDOUT")

\* AcceptServer::overload_wait, set by the constructor
overload_wait == HGL_SERVER_OVERLOAD_RESUME_TIME

\* the new_sock < 0 branch without the forced wait
AcceptError_no_wait(err, plat) ==
    IF err = nseTimeOut(plat) \/ err = nseNoError \/ err = 4 \/ err = 11
         \/ err = nseTooManyLink
    THEN [ret |-> 0, wait |-> FALSE]
    ELSE [ret |-> -1, wait |-> FALSE]

\* the new_sock < 0 branch with return(0) as its last statement
AcceptError_never_fatal(err, plat) ==
    [ret |-> 0, wait |-> err = nseTooManyLink]

\* the new_sock < 0 branch of Accept: err is GetLastSocketError()
AcceptError(err, plat) ==
    IF err = nseTimeOut(plat) \/ err = nseNoError \/ err = 4 \/ err = 11
    THEN [ret |-> 0, wait |-> FALSE]
    ELSE IF err = nseTooManyLink
    THEN [ret |-> 0, wait |-> TRUE]
    ELSE [ret |-> -1, wait |-> FALSE]

\* a gate that stops Accept on a select() error only
SelectGate_only_errors(result) == result < 0

\* if(result<=0) return(0) after select()
SelectGate(result) == result <= 0

\* the listening descriptor is open in the kernel
Listening == srv_ThisSocket \in srv_kern.listening

\* the descriptors a kernel call may hand out: any that is not open, the
\* rest of the process opens and closes descriptors of its own
FreeFds == {d \in 0..(MaxServerFd + 1) : d \notin srv_kern.open}

\* no server descriptor is open
NoServerFd ==
    [open |-> {}, next |-> 0, listening |-> {}, closes |-> [d \in 0..MaxServerFd |-> 0],
     v6only |-> {}]

\* CloseSocket(sock) of Socket: ::close(sock) for a descriptor number
SrvCloseSocket(k, sock) ==
    IF sock < 0 THEN k
    ELSE [k EXCEPT !.open = @ \ {sock}, !.listening = @ \ {sock}, !.closes[sock] = @ + 1]

\* what select() on ThisSocket may return: -1, 0 (timeout), 1 (readable)
SelectResults == IF Listening THEN {-1, 0, 1} ELSE {-1, 0}

\* what accept() on ThisSocket may return: a new descriptor, or -1 with errno
AcceptResults ==
    IF Listening
    THEN {[new_sock |-> d, err |-> "none"] : d \in FreeFds}
         \cup {[new_sock |-> -1, err |-> e] : e \in AcceptErrnos}
    ELSE IF srv_ThisSocket \in srv_kern.open
    THEN {[new_sock |-> -1, err |-> "EINVAL"]}
    ELSE {[new_sock |-> -1, err |-> "EBADF"]}

\* Accept from the select() on: sel and acc are the results of the two
\* kernel calls
AcceptRun(sel, acc) ==
    LET timed == accept_timeout # 0
        pre   == IF timed THEN << <<"select", srv_ThisSocket, sel>> >> ELSE <<>>
        call  == <<"accept", srv_ThisSocket, IF acc.new_sock < 0 THEN acc.err ELSE "ok">>
        e     == AcceptError(Errno(platform, acc.err), platform)
    IN IF timed /\ SelectGate(sel)
       THEN [ret |-> 0, calls |-> pre, new_sock |-> -1]
       ELSE IF acc.new_sock < 0
       THEN [ret |-> e.ret,
             calls |-> pre \o <<call>> \o
                       (IF e.wait THEN << <<"WaitTime", overload_wait, 0>> >> ELSE <<>>),
             new_sock |-> -1]
       ELSE [ret |-> acc.new_sock, calls |-> pre \o <<call>>, new_sock |-> acc.new_sock]

AcceptFrame == UNCHANGED <<sh_vars, sm_vars, io_vars, ob_vars, nf_vars, platform, pl_vars, ht_vars>>

\* ServerSocket::CreateServer: sock_ok, bind_ok, listen_ok are the outcomes
\* of CreateServerSocket(), addr->Bind() and listen(); family is that of addr
CreateServer(sock_ok, bind_ok, listen_ok, family) ==
    /\ ~acc_crashed
    /\ srv_live
    /\ srv_kern.next < MaxServerFd
    /\ IF ~sock_ok
       THEN /\ srv_ThisSocket' = -1
            /\ acc_ret' = 0
            /\ UNCHANGED <<srv_kern, server_address, srv_family>>
       ELSE IF ~bind_ok
       THEN /\ srv_ThisSocket' = srv_kern.next
            /\ srv_kern' = SrvCloseSocket([srv_kern EXCEPT !.open = @ \cup {srv_kern.next},
                                                           !.next = @ + 1], srv_kern.next)
            /\ acc_ret' = 0
            /\ UNCHANGED <<server_address, srv_family>>
       ELSE /\ srv_ThisSocket' = srv_kern.next
            /\ srv_kern' = [srv_kern EXCEPT
                              !.open = @ \cup {srv_kern.next},
                              !.next = @ + 1,
                              !.listening = IF listen_ok THEN @ \cup {srv_kern.next} ELSE @]
            /\ server_address' = TRUE
            /\ srv_family' = family
            /\ acc_ret' = 1
    /\ acc_op' = <<"CreateServer", FALSE>>
    /\ acc_calls' = <<>>
    /\ acc_new_sock' = -1
    /\ UNCHANGED <<srv_live, accept_timeout, acc_crashed, acc_backed_off>>
    /\ AcceptFrame

\* the body of ServerSocket::CloseServer
CloseServerBody ==
    /\ srv_kern' = SrvCloseSocket(srv_kern, srv_ThisSocket)
    /\ srv_ThisSocket' = -1
    /\ server_address' = FALSE
    /\ srv_family' = "none"
    /\ acc_ret' = 0
    /\ acc_calls' = <<>>
    /\ acc_new_sock' = -1
    /\ UNCHANGED <<accept_timeout, acc_crashed, acc_backed_off>>
    /\ AcceptFrame

\* ServerSocket::CloseServer
CloseServer ==
    /\ ~acc_crashed
    /\ srv_live
    /\ CloseServerBody
    /\ acc_op' = <<"CloseServer", FALSE>>
    /\ UNCHANGED srv_live

\* ServerSocket::~ServerSocket: CloseServer()
ServerSocket_dtor ==
    /\ ~acc_crashed
    /\ srv_live
    /\ CloseServerBody
    /\ acc_op' = <<"~ServerSocket", FALSE>>
    /\ srv_live' = FALSE

\* ServerSocket::SetIPv6Only(only); opt_ok: setsockopt() succeeds on an open
\* descriptor. With ThisSocket set and server_address null, GetFamily() is
\* called through a null pointer: the process dies there, or the call
\* returns some family and SetIPv6Only goes on
SetIPv6Only(only, opt_ok) ==
    /\ ~acc_crashed
    /\ srv_live
    /\ acc_op' = <<"SetIPv6Only", only>>
    /\ acc_calls' = <<>>
    /\ acc_new_sock' = -1
    /\ IF srv_ThisSocket = -1
       THEN /\ acc_ret' = 0
            /\ UNCHANGED <<srv_kern, acc_crashed>>
       ELSE \E dies \in (IF server_address THEN {FALSE} ELSE BOOLEAN),
               fam \in (IF server_address THEN {srv_family} ELSE {"AF_INET", "AF_INET6"}) :
              IF dies
              THEN /\ acc_crashed' = TRUE
                   /\ acc_ret' = 0
                   /\ UNCHANGED srv_kern
              ELSE IF fam # "AF_INET6"
              THEN /\ acc_ret' = 0
                   /\ UNCHANGED <<srv_kern, acc_crashed>>
              ELSE IF srv_ThisSocket \in srv_kern.open /\ opt_ok
              THEN /\ acc_ret' = 1
                   /\ srv_kern' = [srv_kern EXCEPT !.v6only =
                                     IF only THEN @ \cup {srv_ThisSocket} ELSE @ \ {srv_ThisSocket}]
                   /\ UNCHANGED acc_crashed
              ELSE /\ acc_ret' = 0
                   /\ UNCHANGED <<srv_kern, acc_crashed>>
    /\ UNCHANGED <<srv_ThisSocket, server_address, srv_family, srv_live, accept_timeout,
                   acc_backed_off>>
    /\ AcceptFrame

\* AcceptServer::SetTimeOut
SetTimeOut(time_out) ==
    /\ ~acc_crashed
    /\ srv_live
    /\ accept_timeout' = time_out
    /\ acc_op' = <<"SetTimeOut", FALSE>>
    /\ acc_ret' = 0
    /\ acc_calls' = <<>>
    /\ acc_new_sock' = -1
    /\ UNCHANGED <<srv_ThisSocket, srv_kern, server_address, srv_family, srv_live,
                   acc_crashed, acc_backed_off>>
    /\ AcceptFrame

\* AcceptServer::Accept(addr). With server_address null, line 22 calls a
\* member function through a null pointer: the process dies there, or the
\* call returns and Accept goes on
Accept(addr_null) ==
    /\ ~acc_crashed
    /\ srv_live
    /\ acc_op' = <<"Accept", addr_null>>
    /\ IF addr_null
       THEN /\ acc_ret' = -1
            /\ acc_calls' = <<>>
            /\ acc_new_sock' = -1
            /\ UNCHANGED <<acc_crashed, acc_backed_off>>
       ELSE \E dies \in (IF server_address THEN {FALSE} ELSE BOOLEAN) :
              IF dies
              THEN /\ acc_crashed' = TRUE
                   /\ acc_ret' = 0
                   /\ acc_calls' = <<>>
                   /\ acc_new_sock' = -1
                   /\ UNCHANGED acc_backed_off
              ELSE \E sel \in SelectResults, acc \in AcceptResults :
                   \E r \in {AcceptRun(sel, acc)} :
                       /\ acc_ret' = r.ret
                       /\ acc_calls' = r.calls
                       /\ acc_new_sock' = r.new_sock
                       /\ acc_backed_off' = (acc_backed_off \/
                              \E i \in DOMAIN r.calls : r.calls[i][1] = "WaitTime")
                       /\ UNCHANGED acc_crashed
    /\ UNCHANGED <<srv_ThisSocket, srv_kern, server_address, srv_family, srv_live, accept_timeout>>
    /\ AcceptFrame

\* ServerSocket() and AcceptServer(): no descriptor, no address, the default
\* accept timeout; plats are the builds considered
InitAccept(plats) ==
    /\ srv_ThisSocket = -1
    /\ srv_kern = NoServerFd
    /\ server_address = FALSE
    /\ srv_family = "none"
    /\ srv_live = TRUE
    /\ acc_new_sock = -1
    /\ accept_timeout = HGL_NETWORK_TIME_OUT
    /\ platform \in plats
    /\ acc_op = <<"none", FALSE>>
    /\ acc_ret = 0
    /\ acc_calls = <<>>
    /\ acc_crashed = FALSE
    /\ acc_backed_off = FALSE

(***************************************************************************)
(* MultiThreadAccept: accept threads on one AcceptServer, and the thread   *)
(* that runs the SocketManage                                              *)
(***************************************************************************)

Threads == 1..NThreads

\* the TCPAccept object made for the i-th connection; its descriptor is i
Accepted_conn(i) == 2 * i - 1

PoolFrame == UNCHANGED <<sh_vars, io_vars, nf_vars, ac_vars, ht_vars, lsn_block,
                         write_filter, cycle_err, prev_err>>

RegistryUntouched == UNCHANGED <<socket_list, sock_recv_list, sock_send_list,
                                 sock_error_list, error_sets, kq, ob_vars>>

\* AcceptThread::Execute, the loop head: while(!IsClose()) server->Accept().
\* Accept starts with the copy of accept_timeout into ato, FD_ZERO, FD_SET
\* and enters select() when a timeout is configured
AcceptThread_Execute(t) ==
    /\ th_pc[t] = "Idle"
    /\ th_pc' = [th_pc EXCEPT ![t] =
                    IF is_close THEN "Stopped"
                    ELSE IF accept_timeout # 0 THEN "select" ELSE "accept"]
    /\ th_sock' = [th_sock EXCEPT ![t] = 0]
    /\ UNCHANGED <<th_trace, ipstr, is_close, pending, connected, owner_pc>>
    /\ RegistryUntouched /\ PoolFrame

\* select() returns: 1 with a connection pending, 0 when the timeout ran
\* out with none; if(result<=0) return(0)
Accept_select(t) ==
    /\ th_pc[t] = "select"
    /\ \E result \in (IF pending # <<>> THEN {1} ELSE {0}) :
          th_pc' = [th_pc EXCEPT ![t] = IF SelectGate(result) THEN "Idle" ELSE "accept"]
    /\ UNCHANGED <<th_sock, th_trace, ipstr, is_close, pending, connected, owner_pc>>
    /\ RegistryUntouched /\ PoolFrame

\* accept(ThisSocket,...): takes the first pending connection; with none
\* pending a non-blocking socket fails with EAGAIN and Accept returns, a
\* blocking one keeps the thread in the kernel
Accept_accept(t) ==
    /\ th_pc[t] = "accept"
    /\ IF pending # <<>>
       THEN /\ th_sock' = [th_sock EXCEPT ![t] = Head(pending)]
            /\ pending' = Tail(pending)
            /\ th_pc' = [th_pc EXCEPT ![t] = "ToString"]
       ELSE /\ th_pc' = [th_pc EXCEPT ![t] = IF lsn_block THEN "in_accept" ELSE "Idle"]
            /\ UNCHANGED <<th_sock, pending>>
    /\ UNCHANGED <<th_trace, ipstr, is_close, connected, owner_pc>>
    /\ RegistryUntouched /\ PoolFrame

\* a connection arrives for a thread that waits in accept()
Accept_wake(t) ==
    /\ th_pc[t] = "in_accept"
    /\ pending # <<>>
    /\ th_sock' = [th_sock EXCEPT ![t] = Head(pending)]
    /\ pending' = Tail(pending)
    /\ th_pc' = [th_pc EXCEPT ![t] = "ToString"]
    /\ UNCHANGED <<th_trace, ipstr, is_close, connected, owner_pc>>
    /\ RegistryUntouched /\ PoolFrame

\* addr->ToString(ipstr,IP_STR_MAX_SIZE): the member buffer of the server
Accept_ToString(t) ==
    /\ th_pc[t] = "ToString"
    /\ ipstr' = th_sock[t]
    /\ th_pc' = [th_pc EXCEPT ![t] = "LogInfo"]
    /\ UNCHANGED <<th_sock, th_trace, is_close, pending, connected, owner_pc>>
    /\ RegistryUntouched /\ PoolFrame

\* LogInfo("AcceptServer Accept IP:"+ipstr+" ,sock:"+new_sock); return(new_sock)
Accept_LogInfo(t) ==
    /\ th_pc[t] = "LogInfo"
    /\ th_trace' = [th_trace EXCEPT ![t] = [ip |-> ipstr, sock |-> th_sock[t]]]
    /\ th_pc' = [th_pc EXCEPT ![t] = "OnAccept"]
    /\ UNCHANGED <<th_sock, ipstr, is_close, pending, connected, owner_pc>>
    /\ RegistryUntouched /\ PoolFrame

\* MyAcceptThread::OnAccept: new MyTCPAccept, UseSocket, and the call of
\* socket_manage->Join(accept) begins
OnAccept(t) ==
    /\ th_pc[t] = "OnAccept"
    /\ th_pc' = [th_pc EXCEPT ![t] = "Join"]
    /\ UNCHANGED <<th_sock, th_trace, ipstr, is_close, pending, connected, owner_pc>>
    /\ RegistryUntouched /\ PoolFrame

\* socket_manage->Join(accept) completes on the accept thread
OnAccept_Join(t) ==
    /\ th_pc[t] = "Join"
    /\ \E j \in {SMJoin(socket_list, kq, Accepted_conn(th_sock[t]))} :
          /\ socket_list' = j.map
          /\ kq' = j.kq
          /\ ret' = BoolRet(j.ok)
          /\ call_log' = j.log
    /\ last_op' = "Join"
    /\ th_pc' = [th_pc EXCEPT ![t] = "Idle"]
    /\ UNCHANGED <<th_sock, th_trace, ipstr, is_close, pending, connected, owner_pc>>
    /\ UNCHANGED <<sock_recv_list, sock_send_list, sock_error_list, error_sets>>
    /\ PoolFrame

\* the event loop of the owner: socket_manage.Update(5.0) begins
Owner_Update_begin ==
    /\ owner_pc = "Idle"
    /\ owner_pc' = "Update"
    /\ UNCHANGED <<th_pc, th_sock, th_trace, ipstr, is_close, pending, connected>>
    /\ RegistryUntouched /\ PoolFrame

\* ... and returns; no descriptor was ready within the timeout
Owner_Update_return ==
    /\ owner_pc = "Update"
    /\ \E u \in {SMUpdate(socket_list, kq, Lists, error_sets,
                          [n |-> 0, evs |-> <<>>, errno |-> "none"], {}, {})} :
          /\ sock_recv_list' = u.lists.recv
          /\ sock_send_list' = u.lists.send
          /\ sock_error_list' = u.lists.error
          /\ error_sets' = u.errs
          /\ ret' = u.ret
          /\ call_log' = u.log
    /\ last_op' = "Update"
    /\ owner_pc' = "Idle"
    /\ UNCHANGED <<th_pc, th_sock, th_trace, ipstr, is_close, pending, connected>>
    /\ UNCHANGED <<socket_list, kq>>
    /\ PoolFrame

\* a client connects to the listening socket
Connect ==
    /\ connected < MaxClients
    /\ connected' = connected + 1
    /\ pending' = Append(pending, connected + 1)
    /\ UNCHANGED <<th_pc, th_sock, th_trace, ipstr, is_close, owner_pc>>
    /\ RegistryUntouched /\ PoolFrame

\* the pool is told to stop: IsClose() returns true from now on
Shutdown ==
    /\ ~is_close
    /\ is_close' = TRUE
    /\ UNCHANGED <<th_pc, th_sock, th_trace, ipstr, pending, connected, owner_pc>>
    /\ RegistryUntouched /\ PoolFrame

\* no thread has been started; modes are the modes of the listening socket
InitThreads(modes) ==
    /\ th_pc = [t \in Threads |-> "Idle"]
    /\ th_sock = [t \in Threads |-> 0]
    /\ th_trace = [t \in Threads |-> [ip |-> 0, sock |-> 0]]
    /\ ipstr = 0
    /\ is_close = FALSE
    /\ pending = <<>>
    /\ connected = 0
    /\ lsn_block \in modes
    /\ owner_pc = "Idle"

(***************************************************************************)
(* HTTPInputStream reading a chunked response                              *)
(***************************************************************************)

\* payload bytes, all different, and the digits of a chunk-size line
Letters == <<"a", "b", "c", "d", "e", "f", "g", "h", "i", "j", "k", "l">>
HexDigits == <<"1", "2", "3", "4", "5", "6", "7", "8", "9">>

RECURSIVE SumSeq(_)
SumSeq(q) == IF q = <<>> THEN 0 ELSE Head(q) + SumSeq(Tail(q))

\* the chunk sizes of the responses considered
ChunkSizes == UNION {[1..n -> 1..MaxChunkLen] : n \in 1..MaxChunks}

\* the payload of a response with these chunk sizes
Payload(sizes) == SubSeq(Letters, 1, SumSeq(sizes))

\* the chunked body as the server sends it:
\* [size in hex]\r\n[data]\r\n ... 0\r\n\r\n
RECURSIVE Chunked(_, _)
Chunked(sizes, data) ==
    IF sizes = <<>> THEN <<"0", "CR", "LF", "CR", "LF">>
    ELSE <<HexDigits[Head(sizes)], "CR", "LF">> \o SubSeq(data, 1, Head(sizes)) \o <<"CR", "LF">>
         \o Chunked(Tail(sizes), SubSeq(data, Head(sizes) + 1, Len(data)))

\* a 200 response with Transfer-Encoding: chunked; "H" stands for the
\* header lines up to and including the empty line
Response(sizes) == <<"H">> \o Chunked(sizes, Payload(sizes))

\* tcp_is->Read(buf, n) on the non-blocking socket: the bytes that have
\* arrived, at most n; nothing arrived is the would-block failure
SockRead(sock, n) ==
    LET k == Min(n, sock.avail)
    IN [n    |-> IF k = 0 THEN -1 ELSE k,
        data |-> SubSeq(sock.wire, 1, k),
        sock |-> [wire |-> SubSeq(sock.wire, k + 1, Len(sock.wire)), avail |-> sock.avail - k]]

\* ReturnError() after a read that would block: 0
ReturnError == 0

\* value of a character of the chunk-size line; other characters add nothing
HexValue(c) ==
    CASE c \in {"0", "1", "2", "3", "4", "5", "6", "7", "8", "9"} ->
            CHOOSE v \in 0..9 : (v = 0 /\ c = "0") \/ (v > 0 /\ HexDigits[v] = c)
      [] c \in {"a", "b", "c", "d", "e", "f"} ->
            CHOOSE v \in 10..15 : Letters[v - 9] = c
      [] OTHER -> 0

\* the loop that parses the hex size
RECURSIVE ParseChunkSize(_, _)
ParseChunkSize(chunk_header, acc) ==
    IF chunk_header = <<>> THEN acc
    ELSE ParseChunkSize(Tail(chunk_header), acc * 16 + HexValue(Head(chunk_header)))

\* the loop that reads the chunk-size line byte by byte up to \r\n; the
\* characters read so far live in a local array
RECURSIVE ReadChunkHeader(_, _)
ReadChunkHeader(sock, chunk_header) ==
    IF Len(chunk_header) >= chunk_header_max THEN [ok |-> TRUE, sock |-> sock, hdr |-> chunk_header]
    ELSE LET r == SockRead(sock, 1)
         IN IF r.n <= 0 THEN [ok |-> FALSE, sock |-> r.sock, hdr |-> chunk_header]
            ELSE IF r.data[1] = "CR"
            THEN LET r2 == SockRead(r.sock, 1)
                 IN IF r2.n <= 0 THEN [ok |-> FALSE, sock |-> r2.sock, hdr |-> chunk_header]
                    ELSE IF r2.data[1] = "LF"
                    THEN [ok |-> TRUE, sock |-> r2.sock, hdr |-> chunk_header]
                    ELSE ReadChunkHeader(r2.sock, chunk_header)
            ELSE ReadChunkHeader(r.sock, Append(chunk_header, r.data[1]))

\* tcp_is->Read(&c,1); tcp_is->Read(&c,1); with both results ignored
SkipCRLF(sock) == SockRead(SockRead(sock, 1).sock, 1).sock

\* ReadChunkedData(buf, bufsize) from the head of its while loop. st holds
\* the socket, the three chunk members, to_read and the bytes put in buf
RECURSIVE ReadChunkedData(_, _)
ReadChunkedData(st, bufsize) ==
    IF ~(st.to_read < bufsize) THEN [st EXCEPT !.ret = st.to_read]
    ELSE IF st.chunk_size = 0 /\ st.chunk_header_parsed
    THEN [st EXCEPT !.ret = st.to_read]
    ELSE
    LET h == IF ~st.chunk_header_parsed \/ st.chunk_pos >= st.chunk_size
             THEN ReadChunkHeader(st.sock, <<>>)
             ELSE [ok |-> TRUE, sock |-> st.sock, hdr |-> <<>>]
        fresh == ~st.chunk_header_parsed \/ st.chunk_pos >= st.chunk_size
        size == IF fresh THEN ParseChunkSize(h.hdr, 0) ELSE st.chunk_size
    IN IF ~h.ok THEN [st EXCEPT !.sock = h.sock, !.ret = ReturnError]
       ELSE IF fresh /\ size = 0
       THEN [st EXCEPT !.sock = SkipCRLF(h.sock), !.chunk_size = 0,
                       !.chunk_header_parsed = TRUE, !.ret = st.to_read]
       ELSE
       LET cpos    == IF fresh THEN 0 ELSE st.chunk_pos
           left    == size - cpos
           to_copy == Min(left, bufsize - st.to_read)
           r       == SockRead(h.sock, to_copy)
       IN IF r.n <= 0
          THEN [st EXCEPT !.sock = r.sock, !.chunk_size = size, !.chunk_pos = cpos,
                          !.chunk_header_parsed = TRUE, !.ret = ReturnError]
          ELSE LET done == cpos + r.n >= size
               IN ReadChunkedData(
                     [st EXCEPT !.sock = IF done THEN SkipCRLF(r.sock) ELSE r.sock,
                                !.chunk_size = size,
                                !.chunk_pos = cpos + r.n,
                                !.chunk_header_parsed = ~done,
                                !.to_read = @ + r.n,
                                !.buf = @ \o r.data],
                     bufsize)

HttpFrame == UNCHANGED <<sh_vars, sm_vars, io_vars, ob_vars, nf_vars, ac_vars, pl_vars, body>>

\* more bytes of the response arrive at the socket
Arrive(n) ==
    /\ tcp_is.avail + n <= Len(tcp_is.wire)
    /\ tcp_is' = [tcp_is EXCEPT !.avail = @ + n]
    /\ UNCHANGED <<response_code, http_pos, chunk_size, chunk_pos, chunk_header_parsed,
                   http_ret, http_out>>
    /\ HttpFrame

\* HTTPInputStream::Read(buf, bufsize) on an open stream. Before the header
\* is parsed it reads what has arrived into http_header, parses the header
\* and hands out the pos bytes that followed it; afterwards it is
\* ReadChunkedData. The caller takes the first http_ret bytes of buf
HTTPInputStream_Read(bufsize) ==
    IF response_code = 0
    THEN \E r \in {SockRead(tcp_is, HTTP_HEADER_BUFFER_SIZE)} :
            IF r.n <= 0
            THEN /\ http_ret' = ReturnError
                 /\ UNCHANGED <<tcp_is, response_code, http_pos, chunk_size, chunk_pos,
                                chunk_header_parsed, http_out>>
                 /\ HttpFrame
            ELSE /\ tcp_is' = r.sock
                 /\ response_code' = 200
                 /\ http_pos' = r.n - 1
                 /\ http_ret' = r.n - 1
                 /\ http_out' = http_out \o SubSeq(r.data, 2, r.n)
                 /\ UNCHANGED <<chunk_size, chunk_pos, chunk_header_parsed>>
                 /\ HttpFrame
    ELSE \E u \in {ReadChunkedData([sock |-> tcp_is, chunk_size |-> chunk_size,
                                    chunk_pos |-> chunk_pos,
                                    chunk_header_parsed |-> chunk_header_parsed,
                                    to_read |-> 0, buf |-> <<>>, ret |-> 0], bufsize)} :
            /\ tcp_is' = u.sock
            /\ chunk_size' = u.chunk_size
            /\ chunk_pos' = u.chunk_pos
            /\ chunk_header_parsed' = u.chunk_header_parsed
            /\ http_ret' = u.ret
            /\ http_out' = http_out \o SubSeq(u.buf, 1, u.ret)
            /\ UNCHANGED <<response_code, http_pos>>
            /\ HttpFrame

\* HTTPInputStream() and Open(): the request is sent, nothing has arrived
\* yet; the server answers with one of the responses
InitStream(responses) ==
    /\ \E sizes \in responses :
          /\ tcp_is = [wire |-> Response(sizes), avail |-> 0]
          /\ body = Payload(sizes)
    /\ response_code = 0
    /\ http_pos = -1
    /\ chunk_size = 0
    /\ chunk_pos = 0
    /\ chunk_header_parsed = FALSE
    /\ http_ret = 0
    /\ http_out = <<>>

\* the server after CreateServer succeeded with descriptor 0, with the
\* accept timeout of the constructor
InitListening ==
    /\ srv_ThisSocket = 0
    /\ srv_kern = [NoServerFd EXCEPT !.open = {0}, !.next = 1, !.listening = {0}]
    /\ server_address = TRUE
    /\ srv_family = "AF_INET"
    /\ srv_live = TRUE
    /\ acc_new_sock = -1
    /\ accept_timeout = HGL_NETWORK_TIME_OUT
    /\ platform = "bsd"
    /\ acc_op = <<"CreateServer", FALSE>>
    /\ acc_ret = 1
    /\ acc_calls = <<>>
    /\ acc_crashed = FALSE
    /\ acc_backed_off = FALSE

\* SocketManage(max_user) with CreateSocketManageBase: an open kqueue that
\* watches nothing; IOSocketCRTP(): Clear()
InitRegistry ==
    /\ socket_list = {}
    /\ sock_recv_list = <<>>
    /\ sock_send_list = <<>>
    /\ sock_error_list = <<>>
    /\ error_sets = <<>>
    /\ kq = [kqueue_fd |-> 0, cur_count |-> 0, regs |-> {}, closes |-> 0, live |-> TRUE]
    /\ write_filter \in BOOLEAN
    /\ last_recv_time_ = [c \in Conns |-> 0]
    /\ recv_time_out_ = [c \in Conns |-> HGL_NETWORK_DOUBLE_TIME_OUT]
    /\ now = 0
    /\ send_total_ = [c \in Conns |-> 0]
    /\ recv_total_ = [c \in Conns |-> 0]
    /\ last_op = "none"
    /\ ret = 0
    /\ call_log = <<>>
    /\ cycle_err = {}
    /\ prev_err = {}
    /\ kq_time_out = 0
    /\ kq_tsp = "none"
    /\ kq_blocked = FALSE
    /\ kq_events = <<>>
    /\ kq_errno = "none"

InitHandle ==
    /\ sh_fd = [h \in Handles |-> -1]
    /\ sh_live = [h \in Handles |-> FALSE]
    /\ kern = [open |-> {}, closes |-> [f \in HandleFds |-> 0], next |-> 0]
    /\ released = {}
    /\ sh_op = <<"none", 0, -1>>

Init ==
    /\ InitRegistry /\ InitHandle /\ InitAccept({"bsd"}) /\ InitThreads({TRUE})
    /\ InitStream({<<1>>})

\* the same objects on either build
InitServer ==
    /\ InitRegistry /\ InitHandle /\ InitAccept(Platforms) /\ InitThreads({TRUE})
    /\ InitStream({<<1>>})

\* a listening server, the accept threads about to run, the owner's
\* SocketManage empty
InitPool ==
    /\ InitRegistry /\ InitHandle /\ InitListening /\ InitThreads(BOOLEAN)
    /\ InitStream({<<1>>})

\* an opened HTTPInputStream and the response on its way
InitHttp ==
    /\ InitRegistry /\ InitHandle /\ InitAccept({"bsd"}) /\ InitThreads({TRUE})
    /\ InitStream(ChunkSizes)
    /\ write_filter = FALSE

SlicesOf(n) == UNION {[1..l -> Pool] : l \in 1..n}

Next ==
    \/ \E c \in Pool : Join(c)
    \/ \E cs \in SlicesOf(MaxBatch) : JoinList(cs)
    \/ \E c \in Pool : Unjoin(c)
    \/ Update(MaxEvents)
    \/ Clear

NextHandle ==
    \/ \E h \in Handles, fd \in HandleFds \cup {-1} : SocketHandle_fd(h, fd)
    \/ \E h \in Handles : SocketHandle_socket(h)
    \/ \E h \in Handles, o \in Handles : SocketHandle_move(h, o)
    \/ \E h \in Handles, o \in Handles : MoveAssign(h, o)
    \/ \E h \in Handles : Release(h)
    \/ \E h \in Handles, fd \in HandleFds \cup {-1} : Reset(h, fd)
    \/ \E h \in Handles : Close(h)
    \/ \E h \in Handles : Destroy(h)

vars == <<sh_vars, sm_vars, io_vars, ob_vars, nf_vars, ac_vars, pl_vars, ht_vars>>

\* the registry, with the clock at rest
Spec == Init /\ [][Next]_vars

NextCycle ==
    \/ \E c \in CycleConns : JoinUpTo(c, Cardinality(CycleConns))
    \/ Update(MaxEvents)

\* the registry filling up with one connection per kind of event, both
\* kqueue filters registered
InitCycle == Init /\ write_filter = TRUE

SpecCycle == InitCycle /\ [][NextCycle]_vars

NextAccept ==
    \/ \E sock_ok \in BOOLEAN, bind_ok \in BOOLEAN, listen_ok \in BOOLEAN :
          CreateServer(sock_ok, bind_ok, listen_ok, "AF_INET")
    \/ CloseServer
    \/ \E t \in 0..MaxAcceptTimeOut : SetTimeOut(t)
    \/ \E addr_null \in BOOLEAN : Accept(addr_null)

ThreadStep(t) ==
    \/ AcceptThread_Execute(t)
    \/ Accept_select(t)
    \/ Accept_accept(t)
    \/ Accept_wake(t)
    \/ Accept_ToString(t)
    \/ Accept_LogInfo(t)
    \/ OnAccept(t)
    \/ OnAccept_Join(t)

NextPool ==
    \/ \E t \in Threads : AcceptThread_Execute(t)
    \/ \E t \in Threads : Accept_select(t)
    \/ \E t \in Threads : Accept_accept(t)
    \/ \E t \in Threads : Accept_wake(t)
    \/ \E t \in Threads : Accept_ToString(t)
    \/ \E t \in Threads : Accept_LogInfo(t)
    \/ \E t \in Threads : OnAccept(t)
    \/ \E t \in Threads : OnAccept_Join(t)
    \/ Owner_Update_begin
    \/ Owner_Update_return
    \/ Connect
    \/ Shutdown

\* the accept threads, the owner and the clients, interleaved
SpecPool == InitPool /\ [][NextPool]_vars

\* every accept thread that can take a step eventually takes one
SpecPoolFair == SpecPool /\ \A t \in Threads : WF_vars(ThreadStep(t))

\* one acceptor and the kernel behind it
SpecAccept == InitServer /\ [][NextAccept]_vars

\* the time_out values Update is called with: negative, zero, positive
TimeOuts == {-1, 0, 1}

NextNotifier ==
    \/ \E sock \in NotifierSocks : Kqueue_Join(sock)
    \/ \E sock \in NotifierSocks : Kqueue_Unjoin(sock)
    \/ Kqueue_Clear
    \/ \E t \in TimeOuts : Kqueue_Update(t, MaxEvents)
    \/ Kqueue_Resume(MaxEvents)

\* the kqueue notifier driven through its own interface
SpecNotifier == Init /\ [][NextNotifier]_vars

\* the connections that are used while the clock runs: the first and the
\* last, which hold different descriptors
TimedConns == {1, NConns}

NextTimeout ==
    \/ \E c \in TimedConns : Join(c)
    \/ \E c \in TimedConns : Unjoin(c)
    \/ Update(MaxEventsTimed)
    \/ Tick
    \/ \E c \in TimedConns, to \in 0..MaxTimeOut : SetRecvTimeOut(c, to)

\* the registry with a running clock and receive timeouts, kqueue_add as
\* compiled (read filter only)
InitTimeout == Init /\ write_filter = FALSE

SpecTimeout == InitTimeout /\ [][NextTimeout]_vars

\* one HTTPInputStream and its socket
NextHttp ==
    \/ \E n \in 1..MaxArrive : Arrive(n)
    \/ \E bufsize \in 1..MaxBufSize : HTTPInputStream_Read(bufsize)

SpecHttp == InitHttp /\ [][NextHttp]_vars

\* a ServerSocket from construction to destruction
NextServer ==
    \/ \E sock_ok \in BOOLEAN, bind_ok \in BOOLEAN, listen_ok \in BOOLEAN,
          family \in {"AF_INET", "AF_INET6"} : CreateServer(sock_ok, bind_ok, listen_ok, family)
    \/ CloseServer
    \/ \E only \in BOOLEAN, opt_ok \in BOOLEAN : SetIPv6Only(only, opt_ok)
    \/ ServerSocket_dtor

SpecServer == Init /\ [][NextServer]_vars

\* the registry from construction to destruction
NextLifetime ==
    \/ \E c \in Pool : Join(c)
    \/ \E c \in Pool : Unjoin(c)
    \/ Update(MaxEvents)
    \/ Clear
    \/ DeleteManage

SpecLifetime == Init /\ [][NextLifetime]_vars

\* connections used on their own, outside a registry
NextConnection ==
    \/ \E c \in TimedConns, n \in ImplReturns : IOSocket_OnRecv(c, n)
    \/ \E c \in TimedConns, n \in ImplReturns : IOSocket_OnSend(c, n)
    \/ \E c \in TimedConns, to \in 0..MaxTimeOut : SetRecvTimeOut(c, to)
    \/ \E c \in TimedConns : CloseSocket(c)
    \/ Tick

SpecConnection == InitTimeout /\ [][NextConnection]_vars

\* SocketHandle objects alone
SpecHandle == Init /\ [][NextHandle]_vars

(***************************************************************************)
(* Claims about SocketHandle (checked under SpecHandle)                    *)
(***************************************************************************)

AllDestroyed == \A h \in Handles : ~sh_live[h]

Owners(fd) == {h \in Handles : sh_live[h] /\ sh_fd[h] = fd}

\* the state part of C5: one owner, one close, nothing left open at the end
C5_State ==
    /\ \A fd \in HandleFds : Cardinality(Owners(fd)) <= 1
    /\ \A fd \in HandleFds : kern.closes[fd] <= 1
    /\ AllDestroyed =>
         \A fd \in HandleFds : fd < kern.next =>
            \/ fd \in released /\ fd \in kern.open /\ kern.closes[fd] = 0
            \/ fd \notin released /\ fd \notin kern.open /\ kern.closes[fd] = 1

\* the step part of C5: close() on a handle that holds no descriptor changes nothing
C5_CloseStep ==
    (sh_op'[1] = "close" /\ sh_fd[sh_op'[2]] < 0)
        => UNCHANGED <<sh_fd, sh_live, kern, released>>

RegisteredAt(x) == {e.val : e \in {r \in socket_list : ThisSocket(r.val) = x}}

\* C1 - unique registration: between operations, for every descriptor x at
\* most one registered connection holds x (and it is filed under x).
C1_UniqueRegistration ==
    /\ \A x \in Fds : Cardinality({e \in socket_list : ThisSocket(e.val) = x}) <= 1
    /\ \A e \in socket_list : e.key = ThisSocket(e.val)

\* a second connection with a registered descriptor was offered and the
\* descriptor still has its one connection
C1_Witness ==
    /\ last_op \in {"Join", "JoinList"}
    /\ \E i \in DOMAIN call_log :
          /\ call_log[i] = <<"socket_list.Add", call_log[i][2], 0>>
          /\ Cardinality(RegisteredAt(call_log[i][2])) = 1

\* 1, 2, 3 for the handlers of the three passes, 0 for any other call
Rank(name) == CASE name = "OnRecv" -> 1 [] name = "OnSend" -> 2 [] name = "OnError" -> 3 [] OTHER -> 0

C3_ErrorSetDrained ==
    last_op = "Update" => Range(error_sets) \subseteq cycle_err

\* an Update that found a connection in the errored set and left without it
C3_Witness ==
    /\ last_op = "Update"
    /\ \E c \in prev_err : c \notin Range(error_sets)
    /\ error_sets # <<>>

\* C6 - a Join whose descriptor is already a key fails and leaves the map,
\* the notifier registrations and the notifier count as they were.
C6_JoinDuplicate ==
    [][\A c \in Pool :
          (Join(c) /\ ThisSocket(c) \in Keys(socket_list))
              => (ret' = 0 /\ socket_list' = socket_list /\ kq' = kq)]_vars

\* a single Join that was refused while connections are registered and watched
C6_Witness ==
    /\ last_op = "Join"
    /\ ret = 0
    /\ \E fd \in Keys(socket_list) : call_log = << <<"socket_list.Add", fd, 0>> >>
    /\ kq.cur_count = Cardinality(socket_list)
    /\ kq.regs # {}

\* the positions of a slice that get inserted: descriptor neither a key
\* already nor held by an earlier connection of the slice
Inserted(cs, m) ==
    {i \in DOMAIN cs :
        /\ ThisSocket(cs[i]) \notin Keys(m)
        /\ \A j \in 1..(i - 1) : ThisSocket(cs[j]) # ThisSocket(cs[i])}

C8_Unjoin ==
    [][\A c \in Conns :
          Unjoin(c) =>
             LET fd == ThisSocket(c)
             IN IF [key |-> fd, val |-> c] \in socket_list
                THEN /\ Len(call_log') = 2
                     /\ call_log'[1][1] = "manage.Unjoin" /\ call_log'[1][2] = fd
                     /\ call_log'[2][1] = "socket_list.DeleteByKey" /\ call_log'[2][2] = fd
                     /\ socket_list' = socket_list \ {[key |-> fd, val |-> c]}
                     /\ \A r \in kq'.regs : r[1] # fd
                ELSE socket_list' = socket_list /\ kq' = kq]_vars

\* a registered, watched connection was unjoined; another stays watched
C8_Witness ==
    /\ last_op = "Unjoin"
    /\ ret = 1
    /\ Len(call_log) = 2
    /\ call_log[1] = <<"manage.Unjoin", call_log[2][2], 1>>
    /\ call_log[2][2] \notin Keys(socket_list)
    /\ kq.regs # {}

Occurrences(seq, v) == Cardinality({i \in DOMAIN seq : seq[i] = v})

\* the connections an Update has to enrol: handler returned a negative code,
\* or the notifier produced an Error record for the descriptor
MustEnrol ==
    {call_log[i][2] : i \in {k \in DOMAIN call_log :
                                 \/ call_log[k][1] \in {"OnRecv", "OnSend"} /\ call_log[k][3] < 0
                                 \/ call_log[k][1] = "OnError"}}
    \cup (IF ret > 0
          THEN {MapGet(socket_list, sock_error_list[i].sock) : i \in DOMAIN sock_error_list} \ {0}
          ELSE {})

\* C10 - after an Update every connection whose OnRecv / OnSend returned a
\* negative code and every connection with an Error record is in the
\* errored set, exactly once.
C10_ErrorEnrolment ==
    last_op = "Update" => \A c \in MustEnrol : Occurrences(error_sets, c) = 1

\* one cycle in which a connection's handler returned a negative code and
\* the notifier produced an Error record for the same connection
C10_Witness ==
    /\ last_op = "Update"
    /\ \E c \in Conns :
          /\ \E i \in DOMAIN call_log : call_log[i] = <<"OnRecv", c, -1>>
          /\ \E i \in DOMAIN sock_error_list : sock_error_list[i].sock = ThisSocket(c)
          /\ <<"OnError", c, 0>> \in Range(call_log)
          /\ Occurrences(error_sets, c) = 1

(***************************************************************************)
(* Claims about receive timeouts (checked under SpecTimeout)               *)
(***************************************************************************)

IsRegistered(c) == [key |-> ThisSocket(c), val |-> c] \in socket_list

\* C9 as stated: a registered connection with now - last_received_time >
\* recv_timeout at the start of an Update is in the errored set at its end.
C9_TimeoutAsStated ==
    [][last_op' = "Update" =>
          \A c \in Conns :
             (IsRegistered(c) /\ now - last_recv_time_[c] > recv_time_out_[c])
                 => c \in Range(error_sets')]_vars

\* C9 - a registered connection that has received before (last_received_time
\* non-zero) and has now - last_received_time > recv_timeout at the start of
\* an Update is in the errored set at the end of that Update.
C9_Timeout ==
    [][last_op' = "Update" =>
          \A c \in Conns :
             (IsRegistered(c) /\ last_recv_time_[c] > 0
                /\ now - last_recv_time_[c] > recv_time_out_[c])
                 => c \in Range(error_sets')]_vars

\* an Update enrolled a silent connection: no event for it in the cycle, its
\* last receive lies further back than its timeout
C9_Witness ==
    /\ last_op = "Update"
    /\ \E c \in Conns :
          /\ IsRegistered(c)
          /\ last_recv_time_[c] > 0
          /\ now - last_recv_time_[c] > recv_time_out_[c]
          /\ c \in Range(error_sets)
          /\ \A i \in DOMAIN call_log : call_log[i][2] = c => call_log[i][1] = "OnUpdate"

(***************************************************************************)
(* Registry and notifier together (checked under Spec)                     *)
(***************************************************************************)

\* C11 - registry and notifier stay consistent: a descriptor is watched by
\* the notifier only if the map holds a connection under that descriptor,
\* and that connection holds the descriptor.
C11_NotifierWithinRegistry ==
    \A r \in kq.regs :
        /\ r[1] \in Keys(socket_list)
        /\ ThisSocket(MapGet(socket_list, r[1])) = r[1]

\* one of two watched connections was unjoined: the other is still watched
\* and still in the map, the unjoined descriptor is in neither
C11_Witness ==
    /\ last_op = "Unjoin"
    /\ ret = 1
    /\ Cardinality(socket_list) = 1
    /\ {r[1] : r \in kq.regs} = Keys(socket_list)
    /\ call_log[1][2] \notin {r[1] : r \in kq.regs}

(***************************************************************************)
(* Claims about the notifier (checked under SpecNotifier)                  *)
(***************************************************************************)

\* the descriptors the kqueue watches
Watched(k) == {r[1] : r \in k.regs}

\* C17 - Remove is idempotent on an absent descriptor: Unjoin(sock) of a
\* descriptor that is not registered leaves Count() and the registrations
\* unchanged.
C17_RemoveAbsent ==
    [][\A sock \in NotifierSocks :
          (Kqueue_Unjoin(sock) /\ sock \notin Watched(kq))
              => (kq'.cur_count = kq.cur_count /\ kq'.regs = kq.regs)]_vars

\* C18 - Count() equals the number of distinct registered descriptors and
\* is never negative.
C18_CountIsRegistrations ==
    /\ kq.cur_count = Cardinality(Watched(kq))
    /\ kq.cur_count >= 0

\* C19 - Poll timeout: a positive time_out bounds the wait and a zero
\* time_out does not wait at all, so only a call with a negative time_out
\* may stay in kevent().
C19_PollTimeout ==
    kq_blocked => kq_time_out < 0

\* the events of kq_events that the code's lists hold, by destination
InList(list, e, val) == \E i \in DOMAIN list : list[i] = [sock |-> e.ident, val |-> val]

\* C20 - classification: an event with an error or a peer-hangup flag is in
\* the error list with its native code, a readable one without such a flag
\* in the receive list, a writable one in the send list, and the three
\* lists hold as many records as events were reported.
C20_Classification ==
    (last_op \in {"Kqueue_Update", "Kqueue_Resume"} /\ ~kq_blocked /\ ret > 0) =>
        /\ \A i \in DOMAIN kq_events :
              LET e == kq_events[i]
              IN IF e.error \/ e.eof
                 THEN InList(sock_error_list, e, e.data)
                 ELSE IF e.filter = "EVFILT_READ"
                 THEN InList(sock_recv_list, e, 0)
                 ELSE InList(sock_send_list, e, 0)
        /\ Len(sock_recv_list) + Len(sock_send_list) + Len(sock_error_list) = Len(kq_events)


(***************************************************************************)
(* Accept                                                                  *)
(***************************************************************************)

\* the last member function that ran is Accept with a non-null addr
Accepted == acc_op = <<"Accept", FALSE>>

\* Accept called the kernel function callee and it gave a result in results
Called(callee, results) ==
    \E i \in DOMAIN acc_calls : acc_calls[i][1] = callee /\ acc_calls[i][3] \in results

CalledAny(callee) == \E i \in DOMAIN acc_calls : acc_calls[i][1] = callee

\* would-block / resource temporarily unavailable, interrupted, timed out
TransientErrnos == {"EAGAIN", "EINTR", "ETIMEDOUT"}

\* neither transient nor too-many-links
FatalErrnos == {"EBADF", "EINVAL", "ENFILE", "ECONNABORTED"}

\* C12: when the kernel accept fails with a transient error (would-block,
\* interrupted, timed out, resource temporarily unavailable), Accept returns
\* 0 and never a negative value.
C12_TransientReturnsZero ==
    (Accepted /\ Called("accept", TransientErrnos)) => acc_ret = 0

\* C13: when the kernel accept fails with too-many-links, Accept waits
\* overload_wait after the failed accept and then returns 0, not a fatal
\* code; it leaves the acceptor as it was, so that a later Accept can
\* succeed.
C13_OverloadBackoff ==
    /\ []((Accepted /\ Called("accept", {"EMFILE"})) =>
            /\ acc_ret = 0
            /\ Len(acc_calls) >= 2
            /\ acc_calls[Len(acc_calls)] = <<"WaitTime", overload_wait, 0>>
            /\ acc_calls[Len(acc_calls) - 1] = <<"accept", srv_ThisSocket, "EMFILE">>)
    /\ []((Accepted /\ CalledAny("WaitTime")) => Called("accept", {"EMFILE"}))
    /\ [][\A addr_null \in BOOLEAN : Accept(addr_null) =>
             UNCHANGED <<srv_ThisSocket, srv_kern, server_address, accept_timeout>>]_vars

\* an Accept that backed off was followed by an Accept that returned a new
\* descriptor
C13_Witness ==
    /\ acc_backed_off /\ Accepted /\ Called("accept", {"ok"}) /\ acc_ret > 0

\* C14: when the kernel accept fails with an error that is neither
\* transient nor too-many-links, Accept returns a negative code; Accept
\* called with a null address returns a negative code too and makes no
\* kernel call.
C14_FatalErrors ==
    /\ (Accepted /\ Called("accept", FatalErrnos)) => acc_ret < 0
    /\ acc_op = <<"Accept", TRUE>> => (acc_ret < 0 /\ acc_calls = <<>>)

C14_Witness ==
    /\ Accepted /\ Listening /\ Called("accept", {"ECONNABORTED"}) /\ acc_ret < 0

\* C15: when an accept timeout is configured and the listening descriptor
\* does not become readable within it, Accept returns 0 without calling
\* the kernel accept.
C15_SelectTimeout ==
    (Accepted /\ accept_timeout # 0 /\ Called("select", {0})) =>
        (acc_ret = 0 /\ ~CalledAny("accept"))

C15_Witness ==
    /\ Accepted /\ Listening /\ accept_timeout # 0
    /\ acc_calls = << <<"select", srv_ThisSocket, 0>> >> /\ acc_ret = 0

\* C16: if the listening descriptor is invalid (never created, creation
\* failed, or closed by CloseServer), an Accept call performs no kernel wait
\* and no kernel accept on it.
C16_InvalidDescriptor ==
    (acc_op[1] = "Accept" /\ ~Listening) =>
        (~CalledAny("select") /\ ~CalledAny("accept"))


(***************************************************************************)
(* The notifier's Update and Join results (checked under SpecNotifier)     *)
(***************************************************************************)

\* the step is a call of Update that has returned
UpdateReturns == last_op' \in {"Kqueue_Update", "Kqueue_Resume"} /\ ~kq_blocked'

\* the records in the three output lists
Records(recv, send, error) == Len(recv) + Len(send) + Len(error)

\* C21 - a non-negative result of Update is the number of event records
\* that call put in the three lists: a positive result is the number of
\* events kevent() reported and the lists hold exactly that many records; a
\* result of 0 (timeout among others) leaves the lists as they were.
C21_UpdateReturnValue ==
    [][(UpdateReturns /\ ret' >= 0) =>
          /\ ret' = Len(kq_events')
          /\ IF ret' > 0
             THEN Records(sock_recv_list', sock_send_list', sock_error_list') = ret'
             ELSE UNCHANGED <<sock_recv_list, sock_send_list, sock_error_list>>]_vars

C21_Witness ==
    /\ last_op = "Kqueue_Update" /\ ret = 2 /\ Len(kq_events) = 2
    /\ Len(sock_recv_list) = 1 /\ Len(sock_error_list) = 1

\* C22 - Update returns a negative value only when the kernel wait reported
\* a corrupt descriptor table (errno EBADF, EFAULT or EINVAL); after any
\* sequence of Join, Unjoin and Clear, and for any other errno, the result is
\* at least 0.
C22_FatalOnlyFromKernel ==
    (last_op \in {"Kqueue_Update", "Kqueue_Resume"} /\ ~kq_blocked /\ ret < 0)
        => kq_errno \in {"EBADF", "EFAULT", "EINVAL"}

\* C23 - Join reports its outcome: it returns true exactly when the
\* descriptor is registered with the kqueue afterwards, and when the
\* registration fails it returns false and leaves Count() as it was.
C23_JoinReportsOutcome ==
    [][\A sock \in NotifierSocks :
          Kqueue_Join(sock) =>
              /\ (ret' = 1) <=> (sock \in Watched(kq'))
              /\ (sock \notin Watched(kq')) => (kq'.cur_count = kq.cur_count)]_vars

\* C24 - max_connect bounds the notifier: Count() never exceeds it, so the
\* nevents Update passes to kevent() (cur_count) never exceeds the length of
\* event_list.
C24_CountWithinCapacity ==
    kq.cur_count <= max_connect


(***************************************************************************)
(* Claims about the accept threads (checked under SpecPool, SpecPoolFair)  *)
(***************************************************************************)

\* the threads at a given place
At(pc) == {t \in Threads : th_pc[t] = pc}

\* C25 - hand-off: accept threads never call the registry's Join
\* themselves, so no Join runs while the owner is inside Update.
C25_HandOff ==
    /\ At("Join") = {}
    /\ ~(owner_pc = "Update" /\ At("Join") # {})

\* C26 - concurrent Accept calls share nothing but the listening
\* descriptor: no two calls use accept_set and ato at the same time, no two
\* calls are between writing and reading ipstr at the same time, and the
\* address a call traces is the address of the connection it accepted.
C26_AcceptIsolation ==
    /\ Cardinality(At("select")) <= 1
    /\ Cardinality(At("LogInfo")) <= 1
    /\ \A t \in Threads : th_trace[t].sock # 0 => th_trace[t].ip = th_trace[t].sock

\* C27 - with an accept timeout configured no Accept call stays in the
\* kernel accept while no connection is pending.
C27_BoundedAccept ==
    \A t \in Threads :
        (accept_timeout # 0 /\ pending = <<>>) => th_pc[t] # "in_accept"

AllStopped == \A t \in Threads : th_pc[t] = "Stopped"

\* C28 - shutdown: with an accept timeout configured, once IsClose() is
\* true every accept thread eventually reaches Stopped, and a stopped thread
\* starts nothing again.
C28_Shutdown ==
    /\ (is_close /\ accept_timeout # 0) ~> AllStopped
    /\ [][\A t \in Threads : th_pc[t] = "Stopped" => th_pc'[t] = "Stopped"]_vars


(***************************************************************************)
(* Claims about release() and reset() (checked under SpecHandle)           *)
(***************************************************************************)

\* C29 - release() returns the descriptor the handle held and voids
\* ownership: after the call get() = -1 and the kernel is as it was, the
\* descriptor is in the caller's hands, and no step closes a descriptor
\* that release() gave away, whatever is done to the handles.
C29_Release ==
    /\ [][\A h \in Handles :
             Release(h) =>
                 /\ sh_fd'[h] = -1
                 /\ kern' = kern
                 /\ sh_fd[h] >= 0 => sh_fd[h] \in released']_vars
    /\ [][\A fd \in released :
             /\ kern'.closes[fd] = kern.closes[fd]
             /\ (fd \in kern.open) = (fd \in kern'.open)]_vars
    /\ [](\A fd \in released : fd \in kern.open /\ kern.closes[fd] = 0)

\* a handle released its descriptor and was then destroyed; the descriptor
\* is still open and was never closed
C29_Witness ==
    \E h \in Handles, fd \in HandleFds :
        /\ sh_op = <<"dtor", h, -1>>
        /\ fd \in released /\ fd \in kern.open /\ kern.closes[fd] = 0
        /\ Owners(fd) = {}

\* C30 - reset(fd): afterwards get() = fd; the descriptor held before, if
\* valid and different from fd, has been closed exactly once and nothing
\* else has; reset(fd) with the descriptor already held closes nothing.
C30_Reset ==
    [][\A h \in Handles, fd \in HandleFds \cup {-1} :
          Reset(h, fd) =>
              /\ sh_fd'[h] = fd
              /\ IF sh_fd[h] >= 0 /\ sh_fd[h] # fd
                 THEN /\ kern.closes[sh_fd[h]] = 0
                      /\ kern'.closes = [kern.closes EXCEPT ![sh_fd[h]] = 1]
                      /\ kern'.open = kern.open \ {sh_fd[h]}
                 ELSE kern' = kern]_vars

\* a handle that held one descriptor was reset to another valid one
C30_Witness ==
    \E h \in Handles :
        /\ sh_op[1] = "reset" /\ sh_op[2] = h
        /\ sh_op[3] >= 0 /\ sh_fd[h] >= 0 /\ sh_fd[h] # sh_op[3]
        /\ kern.closes[sh_op[3]] = 1 /\ sh_op[3] \notin kern.open
        /\ sh_fd[h] \in kern.open

(***************************************************************************)
(* Connection bookkeeping (checked under SpecTimeout)                      *)
(***************************************************************************)

\* the connections whose OnRecv returned r in the Update just taken
RecvReturned(log, r) == {c \in Conns : \E i \in DOMAIN log : log[i] = <<"OnRecv", c, r>>}

UpdateReturned(log, c, r) == \E i \in DOMAIN log : log[i] = <<"OnUpdate", c, r>>

\* C32 - the per-cycle check of a registered connection reports a timeout
\* (OnUpdate returns false) exactly when its last_recv_time_ is non-zero and
\* last_recv_time_ + recv_time_out_ < now; a connection with last_recv_time_
\* = 0 is never reported.
C32_TimeoutPredicate ==
    [][last_op' = "Update" =>
          \A c \in Conns : IsRegistered(c) =>
             /\ UpdateReturned(call_log', c, 0)
                  <=> (last_recv_time_[c] # 0 /\ last_recv_time_[c] + recv_time_out_[c] < now)
             /\ UpdateReturned(call_log', c, 1) <=> ~UpdateReturned(call_log', c, 0)
             /\ last_recv_time_[c] = 0 => UpdateReturned(call_log', c, 1)]_vars

\* one Update reported a connection as timed out and passed another that has
\* not received yet although its timeout is shorter than the time elapsed
C32_Witness ==
    /\ last_op = "Update"
    /\ \E c, d \in Conns :
          /\ UpdateReturned(call_log, c, 0)
          /\ UpdateReturned(call_log, d, 1)
          /\ last_recv_time_[d] = 0
          /\ recv_time_out_[d] < now

(***************************************************************************)
(* Connections on their own (checked under SpecConnection)                 *)
(***************************************************************************)

\* C39 - CloseSocket returns the bookkeeping of the connection to its
\* freshly constructed state: send_total_ and recv_total_ 0, last_recv_time_
\* 0, recv_time_out_ at the default of 120 s whatever SetRecvTimeOut had
\* set; the other connections keep theirs.
C39_CloseResets ==
    [][\A c \in Conns :
          (last_op' = "CloseSocket" /\ call_log'[1][2] = c) =>
              /\ send_total_'[c] = 0
              /\ recv_total_'[c] = 0
              /\ last_recv_time_'[c] = 0
              /\ recv_time_out_'[c] = 120
              /\ \A d \in Conns \ {c} :
                    /\ send_total_'[d] = send_total_[d]
                    /\ recv_total_'[d] = recv_total_[d]
                    /\ last_recv_time_'[d] = last_recv_time_[d]
                    /\ recv_time_out_'[d] = recv_time_out_[d]]_vars

\* a connection whose receive timeout had been changed was closed and has
\* the default again, while another one still holds counted bytes
C39_Witness ==
    /\ last_op = "CloseSocket"
    /\ \E c, d \in Conns :
          /\ call_log[2] = <<"Clear", c, 0>>
          /\ recv_time_out_[c] = 120
          /\ send_total_[c] = 0 /\ recv_total_[c] = 0 /\ last_recv_time_[c] = 0
          /\ recv_total_[d] > 0 /\ send_total_[d] > 0 /\ last_recv_time_[d] > 0

(***************************************************************************)
(* The notifier's output lists (checked under SpecNotifier)                *)
(***************************************************************************)

\* C37 - after an Update of the notifier that returned 0 or a negative
\* value, the receive, send and error lists hold no record.
C37_NoStaleRecords ==
    (last_op \in {"Kqueue_Update", "Kqueue_Resume"} /\ ~kq_blocked /\ ret <= 0)
        => Records(sock_recv_list, sock_send_list, sock_error_list) = 0

(***************************************************************************)
(* Clear and destruction (checked under SpecLifetime)                      *)
(***************************************************************************)

\* the connections an Update reported to a handler
Reported(log) ==
    {log[i][2] : i \in {j \in DOMAIN log : log[j][1] \in {"OnRecv", "OnSend", "OnError"}}}

Created == 0..(srv_kern.next - 1)

\* C34 - every listening socket the server created is closed exactly once:
\* no descriptor is closed twice, and once the server is destroyed every
\* one of them has been closed.
C34_ClosedExactlyOnce ==
    /\ \A d \in Created : srv_kern.closes[d] <= 1
    /\ ~srv_live => \A d \in Created : d \notin srv_kern.open /\ srv_kern.closes[d] = 1

\* C36 - CreateServer returns true only with ThisSocket open, bound and
\* listening and the address kept; when it returns false the server is in
\* the not-created state: ThisSocket is -1 and server_address is null.
C36_CreateServerResult ==
    acc_op[1] = "CreateServer" =>
        IF acc_ret = 1
        THEN srv_ThisSocket \in srv_kern.open /\ srv_ThisSocket \in srv_kern.listening
             /\ server_address
        ELSE srv_ThisSocket = -1 /\ ~server_address

\* C38 - SetIPv6Only returns false and changes nothing when the server has
\* no open listening socket or its address is not an IPv6 one; CloseServer
\* always leaves ThisSocket = -1 and server_address null.
C38_SetIPv6OnlyGuard ==
    /\ [][(acc_op'[1] = "SetIPv6Only"
             /\ (srv_ThisSocket \notin srv_kern.open \/ srv_family # "AF_INET6"))
          => (/\ acc_ret' = 0
              /\ ~acc_crashed'
              /\ UNCHANGED <<srv_ThisSocket, srv_kern, server_address, srv_family>>)]_vars
    /\ [](acc_op[1] = "CloseServer" => (srv_ThisSocket = -1 /\ ~server_address))

(***************************************************************************)
(* The result of Accept (checked under SpecAccept)                         *)
(***************************************************************************)

\* C35 - Accept returns a value above 0 exactly when accept() handed out a
\* connection in that call, and the value is that connection's descriptor:
\* an accepted connection is never answered with 0 and never dropped.
C35_AcceptResult ==
    (acc_op[1] = "Accept" /\ ~acc_crashed) =>
        /\ acc_ret > 0 <=> acc_new_sock # -1
        /\ acc_new_sock # -1 => acc_ret = acc_new_sock

(***************************************************************************)
(* Chunked body decoding (checked under SpecHttp)                          *)
(***************************************************************************)

IsPrefix(p, q) == Len(p) <= Len(q) /\ SubSeq(q, 1, Len(p)) = p

\* the stream has seen the terminating zero-size chunk
AtEnd == response_code # 0 /\ chunk_header_parsed /\ chunk_size = 0

\* C40 - the bytes returned by the successive Read calls are the payload
\* bytes of the chunks, in order, with no size line or CRLF among them and
\* none lost or repeated, wherever the response is split into socket reads
\* and wherever a read would block; at the terminating chunk the whole
\* payload has been returned and further Reads return 0.
C40_ChunkedDecoding ==
    /\ [](IsPrefix(http_out, body))
    /\ [](AtEnd => http_out = body)
    /\ [][\A bufsize \in 1..MaxBufSize :
             (AtEnd /\ HTTPInputStream_Read(bufsize)) => http_ret' = 0]_vars

=============================================================================
